---------------------------- MODULE Spec2Model ----------------------------
(***************************************************************************)
(* Vulkan pixel history (renderdoc/driver/vulkan/vk_pixelhistory.cpp).     *)
(*                                                                         *)
(* VulkanReplay::PixelHistory is modelled as a state machine whose steps   *)
(* are the replay passes and the CPU-side merge loops between them.  What  *)
(* the GPU reports (occlusion counts, stencil fragment counts, primitive   *)
(* ids) follows from the frame that is replayed: the fragments each draw   *)
(* rasterises at the pixel, which of them the fragment shader discards,    *)
(* and the results of the per-test occlusion queries.  The contents of the *)
(* target pixel are represented by a token naming the write that produced  *)
(* them, so two values are equal in the model exactly when they are        *)
(* copies of the same contents.                                            *)
(*                                                                         *)
(* PixelHistoryShaderCache::GetShaderWithoutSideEffects and its callers    *)
(* have their own specification (SpecCache), and so has the loop of        *)
(* StripShaderSideEffects over the functions of a module (SpecStrip).      *)
(***************************************************************************)
EXTENDS Integers, Sequences, FiniteSets, TLC

VARIABLES
  pc,                \* position inside VulkanReplay::PixelHistory
  events,            \* rdcarray<EventUsage> events, each with the frame's command and pipeline
  targetFormat,      \* imginfo.format of the target image
  depthOut,          \* whether the frame's draws have a depth attachment (draw->depthOut)
  fragments,         \* the frame: the fragments each draw rasterises at the pixel
  occlQueries,       \* VulkanOcclusionCallback::m_OcclusionQueries  (event id -> query index)
  occlResults,       \* VulkanOcclusionCallback::m_OcclusionResults
  modEvents,         \* rdcarray<uint32_t> modEvents
  drawEvents,        \* rdcarray<uint32_t> drawEvents
  cbEventIndices,    \* VulkanColorAndStencilCallback::m_EventIndices (event id -> record index)
  dstBuffer,         \* resources.dstBuffer, the readback buffer all the passes copy into
  tfEventFlags,      \* TestsFailedCallback::m_EventFlags   (event id -> set of flags)
  tfQueries,         \* TestsFailedCallback::m_OcclusionQueries (<<event id, test>> -> index)
  tfResults,         \* TestsFailedCallback::m_OcclusionResults
  tfConsulted,       \* the <<event id, test>> pairs GetOcclusionResult was asked for
  history,           \* rdcarray<PixelModification> history
  eventsWithFrags,   \* std::map<uint32_t, uint32_t> eventsWithFrags
  pfEventOffsets,    \* VulkanPixelHistoryPerFragmentCallback::m_EventIndices
  discardedPrims,    \* std::map<uint32_t, rdcarray<int32_t>> discardedPrimsEvents
  dcIndices,         \* VulkanPixelHistoryDiscardedFragmentsCallback::m_OcclusionIndices
  dcResults,         \* VulkanPixelHistoryDiscardedFragmentsCallback::m_OcclusionResults
  shaderReplacements,\* PixelHistoryShaderCache::m_ShaderReplacements
  shaderModules,     \* the VkShaderModule handles vkCreateShaderModule made, with their key
  stripRuns,         \* number of StripShaderSideEffects runs per shader key
  calls,             \* the GetShaderWithoutSideEffects calls so far and what each returned
  strip,             \* StripShaderSideEffects in progress: the module as it was read
                     \* (spirv), the editor's functions, the entry
                     \* point, functionPatchQueue, patchedFunctions, the functions patched
                     \* so far in order, and modified
  sampling,          \* sub.sample and imginfo.samples as PixelHistory is given them, and the
                     \* sampleIdx and sampleMask it computes from them
  redrawPipes,       \* the pipelines made for the redraws of the passes, each with the
                     \* colour blend attachments of the pipeline it was made from
  stages,            \* the pStages the callers of the cache built, each with the original
  gpuLog,            \* the Vulkan and driver calls made so far, in call order
  drawcallCB,        \* the driver's draw callback (cb, what SetDrawcallCB was last given) and,
                     \* for each ReplayLog so far, the pass and the callback registered then
  tfPipeCache,       \* TestsFailedCallback::m_PipeCache (<<event id, flags>> -> pipeline state)
  tfBound            \* the render state at ReplayDraw (the m_PipeCache key of the pipeline
                     \* bound and pipestate.scissors), per <<event id, test>>

histVars == <<pc, events, targetFormat, depthOut, fragments, occlQueries, occlResults, modEvents, drawEvents,
              cbEventIndices, dstBuffer, tfEventFlags, tfQueries, tfResults, tfConsulted,
              history, eventsWithFrags, pfEventOffsets, discardedPrims, dcIndices, dcResults>>

cacheVars == <<shaderReplacements, shaderModules, stripRuns, calls, strip, stages, redrawPipes,
               sampling>>

gpuVars == <<gpuLog, drawcallCB, tfPipeCache, tfBound>>

vars == <<histVars, cacheVars, gpuVars>>

-----------------------------------------------------------------------------
(* Bounds of the model.                                                    *)

MaxEvents == 2

MaxEventId == 2

MaxFrags == 3

MaxPrimId == 1

MaxCalls == 4

MaxShaders == 2

MaxPipelines == 1

MaxFuncs == 3

MaxFuncCalls == 2

MaxBufferEvents == 3

\* An occlusion query result: 0, or a nonzero sample count.
OcclusionValues == {0, 1}

-----------------------------------------------------------------------------
(* Small helpers for std::map and rdcarray.                                *)

EmptyMap == [k \in {} |-> 0]

MapPut(m, k, v) == [x \in (DOMAIN m) \cup {k} |-> IF x = k THEN v ELSE m[x]]

\* std::map::insert: keeps the mapped value of a key already present.
MapInsert(m, k, v) == IF k \in DOMAIN m THEN m ELSE MapPut(m, k, v)

MapSize(m) == Cardinality(DOMAIN m)

Range(s) == {s[i] : i \in DOMAIN s}

RDCMAX(a, b) == IF a > b THEN a ELSE b

\* rdcarray::insert(offs, el): el becomes the element at 0-based index offs.
ArrayInsert(arr, offs, el) == SubSeq(arr, 1, offs) \o <<el>> \o SubSeq(arr, offs + 1, Len(arr))

-----------------------------------------------------------------------------
(* Event flags of the diagnosis pass (the anonymous enum at the top of the *)
(* file).  A flag word is modelled as the set of the names of its bits.    *)

TestEnabled_Culling == "TestEnabled_Culling"
TestEnabled_Scissor == "TestEnabled_Scissor"
TestEnabled_SampleMask == "TestEnabled_SampleMask"
TestEnabled_DepthBounds == "TestEnabled_DepthBounds"
TestEnabled_StencilTesting == "TestEnabled_StencilTesting"
TestEnabled_DepthTesting == "TestEnabled_DepthTesting"
TestEnabled_FragmentDiscard == "TestEnabled_FragmentDiscard"
Blending_Enabled == "Blending_Enabled"
UnboundFragmentShader == "UnboundFragmentShader"
TestMustFail_Culling == "TestMustFail_Culling"
TestMustFail_Scissor == "TestMustFail_Scissor"
TestMustPass_Scissor == "TestMustPass_Scissor"
TestMustFail_DepthTesting == "TestMustFail_DepthTesting"
TestMustFail_StencilTesting == "TestMustFail_StencilTesting"
TestMustFail_SampleMask == "TestMustFail_SampleMask"

\* A mask test that leaves out the bit of the test itself.
OnlyFlag_NoneOfOthers(flags, a, others) == flags \cap others = {}

\* (flags & (a | b | ...)) == a
OnlyFlag(flags, a, others) == a \in flags /\ flags \cap others = {}

-----------------------------------------------------------------------------
(* The frame: pipeline state and resource usage of the candidate events.   *)

\* The pixel the history is requested for (m_CallbackInfo.x, m_CallbackInfo.y) and
\* its sample mask, as the set of the bits that are set.
PixelX == 1

PixelY == 1

PixelSampleMask == {0}

CullModes == {"NONE", "FRONT", "BACK", "FRONT_AND_BACK"}

CompareOps == {"NEVER", "LESS", "ALWAYS"}

Rect(x, y, w, h) == [x |-> x, y |-> y, w |-> w, h |-> h]

\* The viewport of the frame's draws: it covers the target.
FrameViewport == [x |-> 0, y |-> 0, width |-> 4, height |-> 4]

\* VulkanCreationInfo::Pipeline as far as the pass reads it, with the scissors in
\* effect at the draw (pipestate.scissors when VkDynamicScissor is set, p.scissors
\* otherwise), the device's independentBlend feature and whether a fragment shader
\* module is bound, is a record with the fields cullMode, depthBoundsEnable,
\* depthTestEnable, depthCompareOp, stencilTestEnable, frontCompareOp,
\* backCompareOp, scissors, sampleMask, independentBlend, blendEnable,
\* fragmentModule, dynamicScissor (p.dynamicStates[VkDynamicScissor]) and views (the
\* viewports, pipestate.views or vs->pViewports).

\* A containment test that takes the right and bottom edges as inside.
PixelInScissor_EdgesInside(r) ==
  /\ PixelX >= r.x
  /\ PixelY >= r.y
  /\ PixelX <= r.x + r.w
  /\ PixelY <= r.y + r.h

\* The scissor containment test of CalculateEventFlags.
PixelInScissor(r) ==
  /\ PixelX >= r.x
  /\ PixelY >= r.y
  /\ PixelX < r.x + r.w
  /\ PixelY < r.y + r.h

CalculateEventFlags(p) ==
  LET culling ==
        (IF p.cullMode # "NONE" THEN {TestEnabled_Culling} ELSE {})
        \cup (IF p.cullMode = "FRONT_AND_BACK" THEN {TestMustFail_Culling} ELSE {})
      depthBounds == IF p.depthBoundsEnable THEN {TestEnabled_DepthBounds} ELSE {}
      depth ==
        IF p.depthTestEnable
        THEN (IF p.depthCompareOp # "ALWAYS" THEN {TestEnabled_DepthTesting} ELSE {})
             \cup (IF p.depthCompareOp = "NEVER" THEN {TestMustFail_DepthTesting} ELSE {})
        ELSE {}
      stencil ==
        IF p.stencilTestEnable
        THEN (IF p.frontCompareOp # "ALWAYS" \/ p.backCompareOp # "ALWAYS"
              THEN {TestEnabled_StencilTesting} ELSE {})
             \cup (IF p.frontCompareOp = "NEVER" /\ p.backCompareOp = "NEVER"
                   THEN {TestMustFail_StencilTesting}
                   ELSE IF p.frontCompareOp = "NEVER" /\ p.cullMode = "BACK"
                   THEN {TestMustFail_StencilTesting}
                   ELSE IF p.cullMode = "FRONT" /\ p.backCompareOp = "NEVER"
                   THEN {TestMustFail_StencilTesting}
                   ELSE {})
        ELSE {}
      inRegion == \E i \in DOMAIN p.scissors : PixelInScissor(p.scissors[i])
      inAllRegions == \A i \in DOMAIN p.scissors : PixelInScissor(p.scissors[i])
      scissor ==
        (IF ~inRegion THEN {TestMustFail_Scissor} ELSE {})
        \cup (IF inAllRegions THEN {TestMustPass_Scissor} ELSE {})
      blending ==
        IF p.independentBlend
        THEN (IF \E i \in DOMAIN p.blendEnable : p.blendEnable[i]
              THEN {Blending_Enabled} ELSE {})
        ELSE (IF Len(p.blendEnable) > 0 /\ p.blendEnable[1]
              THEN {Blending_Enabled} ELSE {})
      unbound == IF ~p.fragmentModule THEN {UnboundFragmentShader} ELSE {}
      samples ==
        {TestEnabled_SampleMask}
        \cup (IF p.sampleMask \cap PixelSampleMask = {} THEN {TestMustFail_SampleMask} ELSE {})
  IN culling \cup depthBounds \cup depth \cup stencil \cup scissor \cup blending
     \cup unbound \cup samples \cup {TestEnabled_FragmentDiscard}

\* The pipelines of the draws in the specification of the diagnosis pass: every
\* combination of the states the tests depend on.  The scissor lists: none, one
\* rectangle that contains the pixel, one that ends just before it, and one that
\* contains it followed by one of no area.
TestScissorLists ==
  {<<>>, <<Rect(0, 0, 2, 2)>>, <<Rect(0, 0, 1, 1)>>, <<Rect(0, 0, 2, 2), Rect(1, 1, 0, 0)>>}

\* Their scissors are static and each has the frame's viewport.
TestPipelines ==
  {[p EXCEPT !.views = [i \in DOMAIN p.scissors |-> FrameViewport]] :
     p \in [dynamicScissor : {FALSE},
            views : {<<>>},
            cullMode : CullModes,
            depthBoundsEnable : BOOLEAN,
            depthTestEnable : BOOLEAN,
            depthCompareOp : CompareOps,
            stencilTestEnable : BOOLEAN,
            frontCompareOp : CompareOps,
            backCompareOp : CompareOps,
            scissors : TestScissorLists,
            sampleMask : SUBSET {0},
            independentBlend : {FALSE},
            blendEnable : {<<>>},
            fragmentModule : {TRUE}]}

-----------------------------------------------------------------------------
(* Values.  Everything the GPU copies into the readback buffer is a token  *)
(* <<kind, a, b>>.                                                         *)

\* Bytes the initial vkCmdFillBuffer(dstBuffer, 0, VK_WHOLE_SIZE, 0) left, and RDCEraseEl.
Zero == <<"zero", 0, 0>>

\* The target pixel (colour, and the depth and stencil behind it) as fragment f of
\* event eid left it; Written(0, 0) is what the frame starts with.
Written(eid, f) == <<"img", eid, f>>

\* Bytes 8..15 of a 16-byte texel holding w.
ColourHigh(w) == IF w = Zero THEN Zero ELSE <<"imghi", w[2], w[3]>>

\* What the fragment shader of fragment f of event eid outputs.
ShaderOutput(eid, f) == <<"out", eid, f>>

\* The per-fragment colour attachment (subImage) when no fragment was drawn into it.
SubImageUntouched(eid, f) == <<"subimage", eid, f>>

\* A stencil count / a primitive id, as the bytes copied from the stencil / colour image.
Count(n) == IF n = 0 THEN Zero ELSE <<"n", n, 0>>

CountOf(tok) == IF tok[1] = "n" THEN tok[2] ELSE 0

PrimitiveIdBytes(p) == <<"prim", p, 0>>

PrimitiveIdOf(tok) == IF tok[1] = "prim" THEN tok[2] ELSE 0

\* A float read over bytes that hold something else (the union's fdepth member).
AsDepth(tok) == IF tok[1] = "n" THEN <<"bits", tok[2], 0>> ELSE tok

\* The readback buffer is an array of 96-byte records that the capture pass writes
\* as EventInfo and the per-fragment pass as PerFragmentInfo.  A record is split at
\* the byte offsets where a member of either struct starts:
\*   EventInfo        premod 0 (colour 0, depth/stencil 32), postmod 40 (colour 40,
\*                    depth/stencil 72), dsWithoutShaderDiscard 80, dsWithShaderDiscard 88
\*   PerFragmentInfo  primitiveID 0, shaderOut 16 (colour 16, depth/stencil 48),
\*                    postMod 56 (colour 56, depth/stencil 88)
ZeroRecord ==
  [b0 |-> Zero, b16 |-> Zero, b32 |-> Zero, b40 |-> Zero, b48 |-> Zero,
   b56 |-> Zero, b72 |-> Zero, b80 |-> Zero, b88 |-> Zero]

BufferRecord(buf, i) == IF i \in DOMAIN buf THEN buf[i] ELSE ZeroRecord

\* vkCmdCopyImageToBuffer into one part of record i.
BufferWrite(buf, i, part, tok) ==
  MapPut(buf, i, [BufferRecord(buf, i) EXCEPT ![part] = tok])

PixelHistoryValue(color, ds) == [color |-> color, depth |-> AsDepth(ds), stencil |-> ds]

\* eventsInfo[i]
EventInfoAt(buf, i) ==
  LET r == BufferRecord(buf, i)
  IN [premod |-> PixelHistoryValue(r.b0, r.b32),
      postmod |-> PixelHistoryValue(r.b40, r.b72),
      dsWithoutShaderDiscard |-> CountOf(r.b80),
      dsWithShaderDiscard |-> CountOf(r.b88)]

\* bp[i]
PerFragmentInfoAt(buf, i) ==
  LET r == BufferRecord(buf, i)
  IN [primitiveID |-> PrimitiveIdOf(r.b0),
      shaderOut |-> PixelHistoryValue(r.b16, r.b48),
      postMod |-> PixelHistoryValue(r.b56, r.b88)]

\* ModificationValue after RDCEraseEl.
ZeroValue == [col |-> [fmt |-> "raw", v |-> Zero], depth |-> Zero, stencil |-> Zero]

\* ConvertComponents(fmt, value.color) copied into mod.col.floatValue: the colour
\* decoded as the format fmt says.
FillInColor(fmt, value, mod) == [mod EXCEPT !.col = [fmt |-> fmt, v |-> value.color]]

\* The two formats PixelHistory decodes with.
ResourceFmt == "imginfo.format"

ShaderOutFormat == "R32G32B32A32_SFLOAT"

-----------------------------------------------------------------------------
(* The candidate events and the frame they come from.                      *)

RWResourceUsages ==
  {"VS_RWResource", "HS_RWResource", "DS_RWResource", "GS_RWResource", "PS_RWResource",
   "CS_RWResource"}

isDirectWrite(usage) ==
  \/ usage \in RWResourceUsages
  \/ usage \in {"CopyDst", "Copy", "Resolve", "ResolveDst", "GenMips"}

\* The usage of a candidate and the command it was recorded on, which decides the
\* callback hook the replay calls for it (PreDraw/PostDraw, PreDispatch/PostDispatch,
\* PreMisc/PostMisc).  The last one is a render-target usage on a command that is
\* not a draw: no PreDraw is called for it.
EventKinds ==
  {[usage |-> "Clear", cmd |-> "misc"],
   [usage |-> "CS_RWResource", cmd |-> "dispatch"],
   [usage |-> "ColorTarget", cmd |-> "draw"],
   [usage |-> "PS_RWResource", cmd |-> "draw"],
   [usage |-> "ColorTarget", cmd |-> "misc"]}

\* A pipeline with every optional test off and the pixel inside its one scissor.
DefaultPipeline ==
  [cullMode |-> "NONE", depthBoundsEnable |-> FALSE, depthTestEnable |-> FALSE,
   depthCompareOp |-> "ALWAYS", stencilTestEnable |-> FALSE, frontCompareOp |-> "ALWAYS",
   backCompareOp |-> "ALWAYS", scissors |-> <<Rect(0, 0, 2, 2)>>, sampleMask |-> {0},
   independentBlend |-> FALSE, blendEnable |-> <<>>, fragmentModule |-> TRUE,
   dynamicScissor |-> FALSE, views |-> <<FrameViewport>>]

\* The pipelines of the draws in the specification of the whole of PixelHistory.
MergePipelines == {DefaultPipeline}

\* secondary: the command is recorded in the secondary command buffer that the
\* frame's vkCmdExecuteCommands runs.
EventRecords(pipes) ==
  {[eventId |-> id, usage |-> k.usage, cmd |-> k.cmd, secondary |-> sec, pipe |-> p] :
     id \in 1..MaxEventId, k \in EventKinds, sec \in BOOLEAN, p \in pipes}

\* Event lists in frame order; only draws have a pipeline bound that matters, and
\* the events of the secondary command buffer are consecutive.
WellFormedEvents(evs) ==
  /\ \A i \in 1..(Len(evs) - 1) : evs[i].eventId < evs[i + 1].eventId
  /\ \A i \in DOMAIN evs : evs[i].cmd # "draw" => evs[i].pipe = DefaultPipeline
  /\ \A i, j, k \in DOMAIN evs :
       (i < j /\ j < k /\ evs[i].secondary /\ evs[k].secondary) => evs[j].secondary

EventLists(pipes) ==
  UNION {{evs \in [1..n -> EventRecords(pipes)] : WellFormedEvents(evs)} : n \in 0..MaxEvents}

EventOf(evs, eid) == CHOOSE e \in Range(evs) : e.eventId = eid

\* The fragments a draw rasterises at the pixel, in rasterisation order: the
\* primitive each belongs to and whether the fragment shader discards it.
Fragment == [primitiveID : 0..MaxPrimId, discard : BOOLEAN]

\* Primitive ids are counted from the first primitive that covers the pixel.
FragLists ==
  UNION {{fl \in [1..n -> Fragment] : n > 0 => fl[1].primitiveID = 0} : n \in 0..MaxFrags}

NumSurviving(fl) == Cardinality({i \in DOMAIN fl : ~fl[i].discard})

\* 0-based index of the k-th fragment (k >= 1) the shader does not discard.
NthSurviving(fl, k) ==
  (CHOOSE i \in DOMAIN fl :
     ~fl[i].discard /\ Cardinality({j \in 1..i : ~fl[j].discard}) = k) - 1

\* The pixel after the first k not-discarded fragments of the draw were written
\* over contents prev.
ImageAfterFragments(eid, fl, k, prev) ==
  LET m == IF k < NumSurviving(fl) THEN k ELSE NumSurviving(fl)
  IN IF m = 0 THEN prev ELSE Written(eid, NthSurviving(fl, m))

\* The pixel after a whole event.  A draw the candidate filter rejected has no
\* fragments at the pixel; a clear or direct write replaces the contents.
ImageAfterEvent(ev, frs, prev) ==
  IF ev.cmd = "draw"
  THEN IF ev.eventId \in DOMAIN frs
       THEN ImageAfterFragments(ev.eventId, frs[ev.eventId], Len(frs[ev.eventId]), prev)
       ELSE prev
  ELSE IF ev.usage = "Clear" \/ isDirectWrite(ev.usage)
       THEN Written(ev.eventId, 0)
       ELSE prev

RECURSIVE ImageAfter(_, _, _)
\* The pixel after the first i events of the frame.
ImageAfter(evs, frs, i) ==
  IF i = 0 THEN Written(0, 0) ELSE ImageAfterEvent(evs[i], frs, ImageAfter(evs, frs, i - 1))

-----------------------------------------------------------------------------
(* The diagnosis pass: TestsFailedCallback and UpdateTestsFailed.          *)

\* The tests an occlusion query can be issued for, named by the flag ReplayDraw is
\* passed, in the order ReplayDrawWithTests goes through them.
TestOrder ==
  <<TestEnabled_Culling, TestEnabled_Scissor, TestEnabled_SampleMask, TestEnabled_DepthBounds,
    TestEnabled_StencilTesting, TestEnabled_DepthTesting, TestEnabled_FragmentDiscard>>

Tests == Range(TestOrder)

QueryIf(cond, test) == IF cond THEN <<test>> ELSE <<>>

\* ReplayDrawWithTests without its early returns: a query for every enabled test.
ReplayDrawWithTests_NoEarlyReturn(eventFlags) ==
  QueryIf(TestEnabled_Culling \in eventFlags, TestEnabled_Culling)
  \o QueryIf(OnlyFlag(eventFlags, TestEnabled_Scissor, {TestMustPass_Scissor}),
             TestEnabled_Scissor)
  \o QueryIf(TestEnabled_SampleMask \in eventFlags, TestEnabled_SampleMask)
  \o QueryIf(TestEnabled_DepthBounds \in eventFlags, TestEnabled_DepthBounds)
  \o QueryIf(TestEnabled_StencilTesting \in eventFlags, TestEnabled_StencilTesting)
  \o QueryIf(TestEnabled_DepthTesting \in eventFlags, TestEnabled_DepthTesting)
  \o QueryIf(TestEnabled_FragmentDiscard \in eventFlags, TestEnabled_FragmentDiscard)

\* The tests ReplayDrawWithTests calls ReplayDraw for, in call order.
ReplayDrawWithTests(eventFlags) ==
  IF TestMustFail_Culling \in eventFlags THEN <<>>
  ELSE
    LET culling == QueryIf(TestEnabled_Culling \in eventFlags, TestEnabled_Culling)
    IN IF TestMustFail_Scissor \in eventFlags THEN culling
       ELSE
         LET scissor ==
               culling \o QueryIf(OnlyFlag(eventFlags, TestEnabled_Scissor, {TestMustPass_Scissor}),
                                  TestEnabled_Scissor)
         IN IF TestMustFail_SampleMask \in eventFlags THEN scissor
            ELSE
              LET bounds ==
                    scissor
                    \o QueryIf(TestEnabled_SampleMask \in eventFlags, TestEnabled_SampleMask)
                    \o QueryIf(TestEnabled_DepthBounds \in eventFlags, TestEnabled_DepthBounds)
              IN IF TestMustFail_StencilTesting \in eventFlags THEN bounds
                 ELSE
                   LET stencil ==
                         bounds \o QueryIf(TestEnabled_StencilTesting \in eventFlags,
                                           TestEnabled_StencilTesting)
                   IN IF TestMustFail_DepthTesting \in eventFlags THEN stencil
                      ELSE stencil
                           \o QueryIf(TestEnabled_DepthTesting \in eventFlags,
                                      TestEnabled_DepthTesting)
                           \o QueryIf(TestEnabled_FragmentDiscard \in eventFlags,
                                      TestEnabled_FragmentDiscard)

RECURSIVE ReplayDraws(_, _, _)
\* ReplayDraw for each test of the sequence: the query index is the size of
\* m_OcclusionQueries, and insert() keys it by (eventId, test).
ReplayDraws(queries, eventId, tests) ==
  IF tests = <<>> THEN queries
  ELSE ReplayDraws(MapInsert(queries, <<eventId, Head(tests)>>, MapSize(queries)),
                   eventId, Tail(tests))

\* A HasEarlyFragments that reports early fragment tests for every event.
HasEarlyFragments_Early(eventId) == TRUE

\* TestsFailedCallback::PreDraw leaves m_HasEarlyFragments[eid] false for every event.
HasEarlyFragments(eventId) == FALSE

\* UpdateTestsFailed, with occl[test] what GetOcclusionResult(eventId, test) returns.
\* The result is the modification and the tests GetOcclusionResult was called for.
UpdateTestsFailed(earlyFragmentTests, eventFlags, mod, occl) ==
  LET Done(m, k) == [mod |-> m, consulted |-> k]
      readCulling == OnlyFlag(eventFlags, TestEnabled_Culling, {TestMustFail_Culling})
      m1 == IF readCulling
            THEN [mod EXCEPT !.backfaceCulled = (occl[TestEnabled_Culling] = 0)] ELSE mod
      k1 == IF readCulling THEN {TestEnabled_Culling} ELSE {}
      readScissor == OnlyFlag(eventFlags, TestEnabled_Scissor,
                              {TestMustPass_Scissor, TestMustFail_Scissor})
      m2 == IF readScissor
            THEN [m1 EXCEPT !.scissorClipped = (occl[TestEnabled_Scissor] = 0)] ELSE m1
      k2 == IF readScissor THEN k1 \cup {TestEnabled_Scissor} ELSE k1
      readSampleMask == OnlyFlag(eventFlags, TestEnabled_SampleMask, {TestMustFail_SampleMask})
      m3 == IF readSampleMask
            THEN [m2 EXCEPT !.sampleMasked = (occl[TestEnabled_SampleMask] = 0)] ELSE m2
      k3 == IF readSampleMask THEN k2 \cup {TestEnabled_SampleMask} ELSE k2
      m4 == IF ~earlyFragmentTests
            THEN [m3 EXCEPT !.shaderDiscarded = (occl[TestEnabled_FragmentDiscard] = 0)] ELSE m3
      k4 == IF ~earlyFragmentTests THEN k3 \cup {TestEnabled_FragmentDiscard} ELSE k3
      readBounds == TestEnabled_DepthBounds \in eventFlags
      m5 == IF readBounds
            THEN [m4 EXCEPT !.depthClipped = (occl[TestEnabled_DepthBounds] = 0)] ELSE m4
      k5 == IF readBounds THEN k4 \cup {TestEnabled_DepthBounds} ELSE k4
      readStencil == OnlyFlag(eventFlags, TestEnabled_StencilTesting,
                              {TestMustFail_StencilTesting})
      m6 == IF readStencil
            THEN [m5 EXCEPT !.stencilTestFailed = (occl[TestEnabled_StencilTesting] = 0)] ELSE m5
      k6 == IF readStencil THEN k5 \cup {TestEnabled_StencilTesting} ELSE k5
      readDepth == OnlyFlag(eventFlags, TestEnabled_DepthTesting, {TestMustFail_DepthTesting})
      m7 == IF readDepth
            THEN [m6 EXCEPT !.depthTestFailed = (occl[TestEnabled_DepthTesting] = 0)] ELSE m6
      k7 == IF readDepth THEN k6 \cup {TestEnabled_DepthTesting} ELSE k6
      m8 == IF earlyFragmentTests
            THEN [m7 EXCEPT !.shaderDiscarded = (occl[TestEnabled_FragmentDiscard] = 0)] ELSE m7
      k8 == IF earlyFragmentTests THEN k7 \cup {TestEnabled_FragmentDiscard} ELSE k7
  IN IF m1.backfaceCulled THEN Done(m1, k1)
     ELSE IF m2.scissorClipped THEN Done(m2, k2)
     ELSE IF m3.sampleMasked THEN Done(m3, k3)
     ELSE IF ~earlyFragmentTests /\ m4.shaderDiscarded THEN Done(m4, k4)
     ELSE IF m5.depthClipped THEN Done(m5, k5)
     ELSE IF m6.stencilTestFailed THEN Done(m6, k6)
     ELSE IF m7.depthTestFailed THEN Done(m7, k7)
     ELSE Done(m8, k8)

-----------------------------------------------------------------------------
(* The candidate filter pass: VulkanOcclusionCallback.                     *)

RECURSIVE OcclusionPreDraws(_, _, _)
\* PreDraw -> ReplayDrawWithQuery for the draws of the frame from the i-th on:
\* a draw among the candidates gets the query index m_OcclusionQueries.size().
OcclusionPreDraws(queries, evs, i) ==
  IF i > Len(evs) THEN queries
  ELSE OcclusionPreDraws(
         IF evs[i].cmd = "draw"
         THEN MapInsert(queries, evs[i].eventId, MapSize(queries)) ELSE queries,
         evs, i + 1)

\* VulkanOcclusionCallback::GetOcclusionResult
GetOcclusionResult(queries, results, eventId) ==
  IF eventId \notin DOMAIN queries THEN 0 ELSE results[queries[eventId]]

-----------------------------------------------------------------------------
(* The capture pass: VulkanColorAndStencilCallback.  Its state is the pair *)
(* [indices |-> m_EventIndices, buf |-> dstBuffer].                        *)

\* CopyPixel(targetImage, ..., depthImage, ..., offset of premod / postmod of record
\* idx): the colour, and the depth and stencil when there is a depth image.
CopyPixelPremod(buf, idx, img, withDepth) ==
  LET colour == BufferWrite(buf, idx, "b0", img)
  IN IF withDepth THEN BufferWrite(colour, idx, "b32", img) ELSE colour

CopyPixelPostmod(buf, idx, img, withDepth) ==
  LET colour == BufferWrite(BufferWrite(buf, idx, "b40", img), idx, "b48", ColourHigh(img))
  IN IF withDepth THEN BufferWrite(colour, idx, "b72", img) ELSE colour

\* A CopyPixel call of the capture callback: the event whose hook made it, the half
\* of the EventInfo it stores to and the index of the record (storeOffset /
\* sizeof(EventInfo)).
CopyPixelCall(eventId, part, idx) == [eventId |-> eventId, part |-> part, record |-> idx]

\* The capture callback's state is [indices |-> m_EventIndices, buf |-> dstBuffer,
\* copies |-> its CopyPixel calls so far].

\* PreDraw and PostDraw of a draw in the primary command buffer, around the draw
\* itself: fl are the fragments of the draw, pre and post the pixel before and after.
CaptureDraw(st, mods, ev, fl, pre, post, withDepth) ==
  IF ev.eventId \notin Range(mods) \/ ev.secondary THEN st
  ELSE
    LET idx == MapSize(st.indices)
        premod == CopyPixelPremod(st.buf, idx, pre, withDepth)
        without == BufferWrite(premod, idx, "b80", Count(Len(fl)))
        with == BufferWrite(without, idx, "b88", Count(NumSurviving(fl)))
    IN [indices |-> MapInsert(st.indices, ev.eventId, idx),
        buf |-> CopyPixelPostmod(with, idx, post, withDepth),
        copies |-> st.copies \o <<CopyPixelCall(ev.eventId, "premod", idx),
                                  CopyPixelCall(ev.eventId, "postmod", idx)>>]

\* PreDispatch and PostDispatch (PreMisc and PostMisc call them) around the command.
CaptureDispatch(st, mods, ev, pre, post) ==
  IF ev.eventId \notin Range(mods) THEN st
  ELSE
    LET idx == MapSize(st.indices)
    IN [indices |-> MapInsert(st.indices, ev.eventId, idx),
        buf |-> CopyPixelPostmod(CopyPixelPremod(st.buf, idx, pre, FALSE), idx, post, FALSE),
        copies |-> st.copies \o <<CopyPixelCall(ev.eventId, "premod", idx),
                                  CopyPixelCall(ev.eventId, "postmod", idx)>>]

\* The events of m_Events inside [secondaryFirst, secondaryLast], in m_Events order.
EventsInRange(mods, secondaryFirst, secondaryLast) ==
  SelectSeq(mods, LAMBDA e : e >= secondaryFirst /\ e <= secondaryLast)

PreCmdExecute(st, mods, secondaryFirst, secondaryLast, img) ==
  LET inRange == EventsInRange(mods, secondaryFirst, secondaryLast)
  IN IF inRange = <<>> THEN st
     ELSE
       LET idx == MapSize(st.indices)
       IN [indices |-> MapInsert(st.indices, inRange[1], idx),
           buf |-> CopyPixelPremod(st.buf, idx, img, FALSE),
           copies |-> st.copies \o <<CopyPixelCall(inRange[1], "premod", idx)>>]

PostCmdExecute(st, mods, secondaryFirst, secondaryLast, img) ==
  LET inRange == EventsInRange(mods, secondaryFirst, secondaryLast)
  IN IF inRange = <<>> THEN st
     ELSE
       LET eventId == inRange[Len(inRange)]
           idx == IF eventId \in DOMAIN st.indices
                  THEN st.indices[eventId] ELSE MapSize(st.indices)
       IN [indices |-> MapInsert(st.indices, eventId, idx),
           buf |-> CopyPixelPostmod(st.buf, idx, img, FALSE),
           copies |-> st.copies \o <<CopyPixelCall(eventId, "postmod", idx)>>]

\* The event ids the frame's secondary command buffer spans.
SecondaryIds(evs) == {evs[i].eventId : i \in {j \in DOMAIN evs : evs[j].secondary}}

Min(S) == CHOOSE x \in S : \A y \in S : x <= y

Max(S) == CHOOSE x \in S : \A y \in S : x >= y

RECURSIVE CaptureReplay(_, _, _, _, _, _)
\* ReplayLog with the capture callback, from the i-th event of the frame on.
CaptureReplay(st, evs, frs, mods, withDepth, i) ==
  IF i > Len(evs) THEN st
  ELSE
    LET ev == evs[i]
        sec == SecondaryIds(evs)
        pre == ImageAfter(evs, frs, i - 1)
        post == ImageAfter(evs, frs, i)
        entered == IF ev.secondary /\ ev.eventId = Min(sec)
                   THEN PreCmdExecute(st, mods, Min(sec), Max(sec), pre) ELSE st
        fl == IF ev.eventId \in DOMAIN frs THEN frs[ev.eventId] ELSE <<>>
        done == IF ev.cmd = "draw"
                THEN CaptureDraw(entered, mods, ev, fl, pre, post, withDepth)
                ELSE CaptureDispatch(entered, mods, ev, pre, post)
        left == IF ev.secondary /\ ev.eventId = Max(sec)
                THEN PostCmdExecute(done, mods, Min(sec), Max(sec), post) ELSE done
    IN CaptureReplay(left, evs, frs, mods, withDepth, i + 1)

-----------------------------------------------------------------------------
(* The per-fragment pass: VulkanPixelHistoryPerFragmentCallback.  Its      *)
(* state is [offsets |-> m_EventIndices, fragsProcessed, buf |-> dstBuffer]. *)

\* The copies of one iteration f of the first loop of PreDraw into record rec:
\* the primitive id (i = 0), then the shader output (i = 1) of the f-th fragment
\* that passes the stencil test EQUAL f.  The primitive id shader discards nothing;
\* the shader output pipeline runs the draw's fragment shader.
PerFragmentCopies(buf, rec, eid, fl, f, depthEnabled) ==
  LET primId == BufferWrite(buf, rec, "b0",
                  IF f < Len(fl) THEN PrimitiveIdBytes(fl[f + 1].primitiveID)
                  ELSE SubImageUntouched(eid, f))
      drawn == f < NumSurviving(fl)
      out == IF drawn THEN ShaderOutput(eid, NthSurviving(fl, f + 1))
             ELSE SubImageUntouched(eid, f)
      depth == IF depthEnabled THEN BufferWrite(primId, rec, "b48", out) ELSE primId
  IN BufferWrite(depth, rec, "b16", out)

RECURSIVE PerFragmentValues(_, _, _, _, _, _, _)
\* for(f = 0; f < numFragmentsInEvent; f++), from iteration f on.
PerFragmentValues(buf, base, eid, fl, n, depthEnabled, f) ==
  IF f >= n THEN buf
  ELSE PerFragmentValues(PerFragmentCopies(buf, base + f, eid, fl, f, depthEnabled),
                         base, eid, fl, n, depthEnabled, f + 1)

\* The value of an expression of type uint32_t whose operands are fragment counts:
\* x itself, or for x < 0 the wrapped value 2^32 + x, for which the greatest
\* integer there is to compute with stands (it too exceeds every count).
UInt32(x) == IF x >= 0 THEN x ELSE 2147483647

RECURSIVE PerFragmentPostMods(_, _, _, _, _, _, _, _)
\* for(uint32_t f = 0; f < numFragmentsInEvent - 1; f++), from iteration f on: the draw is
\* repeated on the real attachment with the stencil test EQUAL f, so the pixel
\* holds what the first f + 1 not-discarded fragments made of it.
PerFragmentPostMods(buf, base, eid, fl, n, pre, withDepth, f) ==
  IF f >= UInt32(n - 1) THEN buf
  ELSE
    LET img == ImageAfterFragments(eid, fl, f + 1, pre)
        colour == BufferWrite(buf, base + f, "b56", img)
        depth == IF withDepth THEN BufferWrite(colour, base + f, "b88", img) ELSE colour
    IN PerFragmentPostMods(depth, base, eid, fl, n, pre, withDepth, f + 1)

\* VulkanPixelHistoryPerFragmentCallback::PreDraw
PerFragmentPreDraw(st, frags, ev, fl, pre, withDepth) ==
  IF ev.eventId \notin DOMAIN frags THEN st
  ELSE
    LET n == frags[ev.eventId]
        values == PerFragmentValues(st.buf, st.fragsProcessed, ev.eventId, fl, n,
                                    ev.pipe.depthTestEnable, 0)
    IN [offsets |-> MapPut(st.offsets, ev.eventId, st.fragsProcessed),
        fragsProcessed |-> st.fragsProcessed + n,
        buf |-> PerFragmentPostMods(values, st.fragsProcessed, ev.eventId, fl, n, pre,
                                    withDepth, 0)]

RECURSIVE PerFragmentReplay(_, _, _, _, _, _)
\* ReplayLog(0, eventsWithFrags.rbegin()->first) with the per-fragment callback,
\* from the i-th event of the frame on.
PerFragmentReplay(st, evs, frs, frags, withDepth, i) ==
  IF i > Len(evs) \/ evs[i].eventId > Max(DOMAIN frags) THEN st
  ELSE
    LET ev == evs[i]
        fl == IF ev.eventId \in DOMAIN frs THEN frs[ev.eventId] ELSE <<>>
    IN PerFragmentReplay(
         IF ev.cmd = "draw"
         THEN PerFragmentPreDraw(st, frags, ev, fl, ImageAfter(evs, frs, i - 1), withDepth)
         ELSE st,
         evs, frs, frags, withDepth, i + 1)

-----------------------------------------------------------------------------
(* The discarded-fragment pass:                                            *)
(* VulkanPixelHistoryDiscardedFragmentsCallback.  Its state is             *)
(* [indices |-> m_OcclusionIndices, begun |-> for each query index, the    *)
(* <<event id, primitive id>> pairs vkCmdBeginQuery was called for].       *)

RECURSIVE DiscardedPreDraw(_, _, _, _)
\* The loop over primIds of PreDraw, from the i-th primitive id on.
DiscardedPreDraw(st, eid, primIds, i) ==
  IF i > Len(primIds) THEN st
  ELSE
    LET queryId == MapSize(st.indices)
        key == <<eid, primIds[i]>>
        before == IF queryId \in DOMAIN st.begun THEN st.begun[queryId] ELSE <<>>
    IN DiscardedPreDraw([indices |-> MapPut(st.indices, key, queryId),
                         begun |-> MapPut(st.begun, queryId, Append(before, key))],
                        eid, primIds, i + 1)

RECURSIVE DiscardedReplay(_, _, _, _, _)
\* ReplayLog(0, eventsWithFrags.rbegin()->first) with the discarded-fragment callback.
DiscardedReplay(st, evs, prims, lastEid, i) ==
  IF i > Len(evs) \/ evs[i].eventId > lastEid THEN st
  ELSE DiscardedReplay(
         IF evs[i].cmd = "draw" /\ evs[i].eventId \in DOMAIN prims
         THEN DiscardedPreDraw(st, evs[i].eventId, prims[evs[i].eventId], 1) ELSE st,
         evs, prims, lastEid, i + 1)

\* The samples that pass when the primitive is redrawn (every instance of it) with
\* the draw's fragment shader and every test off.
PrimitiveSamples(fl, primId) ==
  IF \E i \in DOMAIN fl : fl[i].primitiveID = primId /\ ~fl[i].discard THEN 1 ELSE 0

\* The results vkGetQueryPoolResults can give for the first n queries: a query begun
\* once counts the samples of its primitive; a query that was never begun, or begun
\* again without a reset, has no defined result.
DiscardedResults(begun, frs, n) ==
  {r \in [0..(n - 1) -> OcclusionValues] :
     \A q \in 0..(n - 1) :
       (q \in DOMAIN begun /\ Len(begun[q]) = 1) =>
          r[q] = PrimitiveSamples(frs[begun[q][1][1]], begun[q][1][2])}

\* VulkanPixelHistoryDiscardedFragmentsCallback::PrimitiveDiscarded as a relation:
\* d is a value the call can return.  An index at or past the end of
\* m_OcclusionResults reads outside the array.
PrimitiveDiscarded(indices, results, eid, primId, d) ==
  IF <<eid, primId>> \notin DOMAIN indices THEN d = FALSE
  ELSE IF indices[<<eid, primId>>] \in DOMAIN results
       THEN d = (results[indices[<<eid, primId>>]] = 0)
       ELSE d \in BOOLEAN

-----------------------------------------------------------------------------
(* VulkanReplay::PixelHistory: the loops that build and merge the history. *)

\* PixelModification after RDCEraseEl.
NewModification ==
  [eventId |-> 0, directShaderWrite |-> FALSE, unboundPS |-> FALSE, fragIndex |-> 0,
   primitiveID |-> 0, preMod |-> ZeroValue, shaderOut |-> ZeroValue, postMod |-> ZeroValue,
   sampleMasked |-> FALSE, backfaceCulled |-> FALSE, depthClipped |-> FALSE,
   viewClipped |-> FALSE, scissorClipped |-> FALSE, shaderDiscarded |-> FALSE,
   depthTestFailed |-> FALSE, stencilTestFailed |-> FALSE, predicationSkipped |-> FALSE]

RECURSIVE GatherEvents(_, _, _, _)
\* The loop that fills modEvents and drawEvents, from the i-th candidate on.
GatherEvents(evs, queries, results, i) ==
  IF i > Len(evs) THEN [modEvents |-> <<>>, drawEvents |-> <<>>]
  ELSE
    LET rest == GatherEvents(evs, queries, results, i + 1)
        eid == evs[i].eventId
    IN IF isDirectWrite(evs[i].usage) \/ evs[i].usage = "Clear"
       THEN [rest EXCEPT !.modEvents = <<eid>> \o @]
       ELSE IF GetOcclusionResult(queries, results, eid) > 0
            THEN [modEvents |-> <<eid>> \o rest.modEvents,
                  drawEvents |-> <<eid>> \o rest.drawEvents]
            ELSE rest

\* The tests UpdateTestsFailed can call GetOcclusionResult for, given the flags.
PossiblyConsulted(eventFlags) ==
  {t \in Tests :
     \/ t = TestEnabled_Culling /\ OnlyFlag(eventFlags, t, {TestMustFail_Culling})
     \/ t = TestEnabled_Scissor
          /\ OnlyFlag(eventFlags, t, {TestMustPass_Scissor, TestMustFail_Scissor})
     \/ t = TestEnabled_SampleMask /\ OnlyFlag(eventFlags, t, {TestMustFail_SampleMask})
     \/ t = TestEnabled_FragmentDiscard
     \/ t = TestEnabled_DepthBounds /\ t \in eventFlags
     \/ t = TestEnabled_StencilTesting /\ OnlyFlag(eventFlags, t, {TestMustFail_StencilTesting})
     \/ t = TestEnabled_DepthTesting /\ OnlyFlag(eventFlags, t, {TestMustFail_DepthTesting})}

\* The <<event id, test>> pairs for which TestsFailedCallback::GetOcclusionResult
\* would find no query: it logs an error and reads through the end iterator.
MissingQueries(draws, flags, queries) ==
  {k \in Range(draws) \X Tests :
     k[1] \in DOMAIN flags /\ k[2] \in PossiblyConsulted(flags[k[1]]) /\ k \notin DOMAIN queries}

\* TestsFailedCallback::GetOcclusionResult for every test of one event; garbage is
\* what the read through the end iterator gives.
TestsFailedOcclusion(queries, results, garbage, eid) ==
  [t \in Tests |->
     IF <<eid, t>> \in DOMAIN queries THEN results[queries[<<eid, t>>]]
     ELSE IF <<eid, t>> \in DOMAIN garbage THEN garbage[<<eid, t>>] ELSE 0]

\* The body of the loop that builds history, for one candidate that is kept.
BuildModification(ev, flags, queries, results, garbage) ==
  LET clear == ev.usage = "Clear"
      directWrite == isDirectWrite(ev.usage)
      mod == [NewModification EXCEPT !.eventId = ev.eventId, !.directShaderWrite = directWrite]
  IN IF clear \/ directWrite THEN [mod |-> mod, consulted |-> {}]
     ELSE
       LET f == flags[ev.eventId]
           mustFail ==
             [mod EXCEPT !.backfaceCulled = TestMustFail_Culling \in f,
                         !.depthTestFailed = TestMustFail_DepthTesting \in f,
                         !.scissorClipped = TestMustFail_Scissor \in f,
                         !.sampleMasked = TestMustFail_SampleMask \in f,
                         !.unboundPS = UnboundFragmentShader \in f]
       IN UpdateTestsFailed(HasEarlyFragments(ev.eventId), f, mustFail,
                            TestsFailedOcclusion(queries, results, garbage, ev.eventId))

RECURSIVE BuildHistory(_, _, _, _, _, _, _)
\* for(ev = 0; ev < events.size(); ev++), from the i-th candidate on.
BuildHistory(evs, draws, flags, queries, results, garbage, i) ==
  IF i > Len(evs) THEN [history |-> <<>>, consulted |-> {}]
  ELSE
    LET rest == BuildHistory(evs, draws, flags, queries, results, garbage, i + 1)
        ev == evs[i]
    IN IF ev.eventId \in Range(draws) \/ ev.usage = "Clear" \/ isDirectWrite(ev.usage)
       THEN LET b == BuildModification(ev, flags, queries, results, garbage)
            IN [history |-> <<b.mod>> \o rest.history,
                consulted |-> {<<ev.eventId, t>> : t \in b.consulted} \cup rest.consulted]
       ELSE rest

\* A GetEventIndex that answers 0, the first record, for an event without one.
GetEventIndex_FirstRecordIfMissing(indices, eventId) ==
  IF eventId \in DOMAIN indices THEN indices[eventId] ELSE 0

\* VulkanColorAndStencilCallback::GetEventIndex
GetEventIndex(indices, eventId) == IF eventId \in DOMAIN indices THEN indices[eventId] ELSE -1

\* mod.preMod / mod.postMod as the expansion loop fills them from an EventInfo value.
FillInValue(value, mod) ==
  [FillInColor(ResourceFmt, value, mod) EXCEPT !.depth = value.depth, !.stencil = value.stencil]

\* history[h] after the expansion loop filled it from ei.
FillFromEventInfo(mod, ei) ==
  [mod EXCEPT !.preMod = FillInValue(ei.premod, @),
              !.postMod = FillInValue(ei.postmod, @),
              !.shaderOut.col = [fmt |-> "intValue",
                                 v |-> <<"counts", ei.dsWithoutShaderDiscard,
                                         ei.dsWithShaderDiscard>>],
              !.primitiveID = IF ei.dsWithShaderDiscard < ei.dsWithoutShaderDiscard
                              THEN 1 ELSE 0]

\* What a read through the reference mod can give once an insert has moved the
\* elements of history to new storage: the bytes of the old storage, whose head
\* the allocator may have overwritten.  Of the fields there the later loops read
\* eventId and primitiveID (compared with 1 by the collect loop); fragIndex is set
\* again by the fragIndex loop.
FreedElement(mod) ==
  {[mod EXCEPT !.eventId = g, !.primitiveID = p] : g \in 0..MaxEventId, p \in {0, 1}}

\* The element history.insert(h + 1, mod) copies on the f-th insert of one event:
\* mod refers to history[h] as it was located before the first insert.
InsertedElement(mod, f) == IF f = 1 THEN {mod} ELSE FreedElement(mod)

RECURSIVE InsertCopies(_, _, _, _, _)
\* for(f = 1; f < frags; f++) history.insert(h + 1, mod), from iteration f on.
InsertCopies(hist, h, mod, f, frags) ==
  IF f >= frags THEN {hist}
  ELSE UNION {InsertCopies(ArrayInsert(hist, h + 1, el), h, mod, f + 1, frags) :
                el \in InsertedElement(mod, f)}

\* for(f = 0; f < frags; f++) history[h + f].fragIndex = f
SetFragIndices(hist, h, frags) ==
  [i \in DOMAIN hist |->
     IF i - 1 >= h /\ i - 1 < h + frags THEN [hist[i] EXCEPT !.fragIndex = i - 1 - h]
     ELSE hist[i]]

\* An eventsWithFrags that is given every event that has a record.
RecordFragments_Always(frags, eventId, n) == MapPut(frags, eventId, n)

\* if(frags > 0) eventsWithFrags[mod.eventId] = frags;
RecordFragments(frags, eventId, n) == IF n > 0 THEN MapPut(frags, eventId, n) ELSE frags

RECURSIVE ExpandHistory(_, _, _, _, _)
\* for(h = 0; h < history.size();), from index h on: the histories and
\* eventsWithFrags maps the loop can end with.
ExpandHistory(hist, frags, indices, buf, h) ==
  IF h >= Len(hist) THEN {[history |-> hist, eventsWithFrags |-> frags]}
  ELSE
    LET eventIndex == GetEventIndex(indices, hist[h + 1].eventId)
    IN IF eventIndex = -1 THEN ExpandHistory(hist, frags, indices, buf, h + 1)
       ELSE
         LET ei == EventInfoAt(buf, eventIndex)
             mod == FillFromEventInfo(hist[h + 1], ei)
             n == ei.dsWithoutShaderDiscard
             withFrags == RecordFragments(frags, mod.eventId, n)
         IN UNION {ExpandHistory(SetFragIndices(copies, h, n), withFrags, indices, buf,
                                 h + RDCMAX(1, n)) :
                     copies \in InsertCopies([hist EXCEPT ![h + 1] = mod], h, mod, 1, n)}

\* VulkanPixelHistoryPerFragmentCallback::GetEventOffset
GetEventOffset(offsets, eid) == IF eid \in DOMAIN offsets THEN offsets[eid] ELSE 0

RECURSIVE CollectPrimitiveIds(_, _, _, _, _, _)
\* The loop that reads the primitive ids back and fills discardedPrimsEvents, from
\* index h on.
CollectPrimitiveIds(hist, prims, frags, offsets, buf, h) ==
  IF h >= Len(hist) THEN [history |-> hist, discardedPrims |-> prims]
  ELSE
    LET eid == hist[h + 1].eventId
    IN IF eid \notin DOMAIN frags
       THEN CollectPrimitiveIds(hist, prims, frags, offsets, buf, h + 1)
       ELSE
         LET someFragsClipped == hist[h + 1].primitiveID = 1
             primId == PerFragmentInfoAt(buf, GetEventOffset(offsets, eid)
                                              + hist[h + 1].fragIndex).primitiveID
             before == IF eid \in DOMAIN prims THEN prims[eid] ELSE <<>>
         IN CollectPrimitiveIds([hist EXCEPT ![h + 1].primitiveID = primId],
                                IF someFragsClipped
                                THEN MapPut(prims, eid, Append(before, primId)) ELSE prims,
                                frags, offsets, buf, h + 1)

\* primitivesToCheck
PrimitivesToCheck(prims) ==
  LET total[S \in SUBSET DOMAIN prims] ==
        IF S = {} THEN 0
        ELSE LET e == CHOOSE x \in S : TRUE IN Len(prims[e]) + total[S \ {e}]
  IN total[DOMAIN prims]

\* The histories the loop history[h].shaderDiscarded = PrimitiveDiscarded(...) can
\* leave.
ApplyDiscarded(hist, indices, results) ==
  {[i \in DOMAIN hist |-> [hist[i] EXCEPT !.shaderDiscarded = d[i]]] :
     d \in {b \in [DOMAIN hist -> BOOLEAN] :
              \A i \in DOMAIN hist :
                PrimitiveDiscarded(indices, results, hist[i].eventId, hist[i].primitiveID,
                                   b[i])}}

RECURSIVE FillPerFragment(_, _, _, _, _, _)
\* The last loop: shader output and post-modification value of every fragment, from
\* index h on.
FillPerFragment(hist, frags, offsets, buf, h, discardOffset) ==
  IF h >= Len(hist) THEN hist
  ELSE
    LET eid == hist[h + 1].eventId
        f == hist[h + 1].fragIndex
        reset == IF h > 0 /\ eid # hist[h].eventId THEN 0 ELSE discardOffset
    IN IF eid \notin DOMAIN frags
       THEN FillPerFragment(hist, frags, offsets, buf, h + 1, reset)
       ELSE IF hist[h + 1].shaderDiscarded
       THEN FillPerFragment(
              IF h > 0 THEN [hist EXCEPT ![h + 1].postMod = hist[h].postMod] ELSE hist,
              frags, offsets, buf, h + 1, reset + 1)
       ELSE
         LET info == PerFragmentInfoAt(buf, GetEventOffset(offsets, eid) + f - reset)
             out == [hist EXCEPT ![h + 1].shaderOut =
                       [FillInColor(ShaderOutFormat, info.shaderOut, @)
                          EXCEPT !.depth = info.shaderOut.depth]]
             notLast == h < Len(hist) - 1 /\ eid = hist[h + 2].eventId
         IN FillPerFragment(
              IF notLast
              THEN [out EXCEPT ![h + 1].postMod =
                      [FillInColor(ResourceFmt, info.postMod, @)
                         EXCEPT !.depth = info.postMod.depth]]
              ELSE out,
              frags, offsets, buf, h + 1, reset)

-----------------------------------------------------------------------------
(* The Vulkan objects PixelHistory and its callbacks create and destroy,   *)
(* and the order of their calls.  An entry of gpuLog is [op, obj]; obj is  *)
(* <<type, owner, event id, role>>, with type "" for a call that is not    *)
(* about an object.                                                        *)

Obj(type, owner, id, role) == <<type, owner, id, role>>

Call(op, obj) == [op |-> op, obj |-> obj]

\* A call that is not about one object, made by or for owner.
Step(op, owner, role) == Call(op, Obj("", owner, 0, role))

CreateAll(objs) == [i \in DOMAIN objs |-> Call("Create", objs[i])]

DestroyAll(objs) == [i \in DOMAIN objs |-> Call("Destroy", objs[i])]

\* The objects of one type that owner created, in creation order.
Created(log, owner, type) ==
  LET made == SelectSeq(log, LAMBDA c : c.op = "Create" /\ c.obj[1] = type /\ c.obj[2] = owner)
  IN [i \in DOMAIN made |-> made[i].obj]

\* CreateOcclusionPool: vkCreateQueryPool, then the reset is submitted and flushed.
CreateOcclusionPool(owner) ==
  <<Call("Create", Obj("QueryPool", owner, 0, "")),
    Step("SubmitCmds", owner, "CreateOcclusionPool"),
    Step("FlushQ", owner, "CreateOcclusionPool")>>

DestroyQueryPool(owner) == <<Call("Destroy", Obj("QueryPool", owner, 0, ""))>>

\* What PixelHistorySetupResources creates for a single-sampled target, in order.
SetupObjects ==
  <<Obj("Image", "resources", 0, "colorImage"),
    Obj("Image", "resources", 0, "stencilImage"),
    Obj("Memory", "resources", 0, "gpuMem"),
    Obj("ImageView", "resources", 0, "colorImageView"),
    Obj("ImageView", "resources", 0, "stencilImageView"),
    Obj("Buffer", "resources", 0, "dstBuffer"),
    Obj("Memory", "resources", 0, "bufferMemory")>>

PixelHistorySetupResources ==
  CreateAll(SetupObjects)
  \o <<Step("SubmitCmds", "resources", "PixelHistorySetupResources"),
       Step("FlushQ", "resources", "PixelHistorySetupResources")>>

\* The handles of a single-sampled target that are not VK_NULL_HANDLE, in the order
\* PixelHistoryDestroyResources releases them.
PixelHistoryDestroyResources ==
  DestroyAll(<<Obj("Memory", "resources", 0, "gpuMem"),
               Obj("Image", "resources", 0, "colorImage"),
               Obj("ImageView", "resources", 0, "colorImageView"),
               Obj("Image", "resources", 0, "stencilImage"),
               Obj("ImageView", "resources", 0, "stencilImageView"),
               Obj("Buffer", "resources", 0, "dstBuffer"),
               Obj("Memory", "resources", 0, "bufferMemory")>>)

\* A replay pass that submits its commands and does not wait for the queue.
ReplayPass_NoFlush(owner, made) ==
  <<Step("ReplayLog", owner, "pass")>> \o made \o <<Step("SubmitCmds", owner, "pass")>>

\* m_pDriver->ReplayLog with the callback of owner registered, during which the
\* callback makes the calls made; then SubmitCmds and FlushQ.
ReplayPass(owner, made) ==
  <<Step("ReplayLog", owner, "pass")>> \o made
  \o <<Step("SubmitCmds", owner, "pass"), Step("FlushQ", owner, "pass")>>

\* ~VulkanPixelHistoryCallback after the derived destructor: the pipelines of the
\* callback, then m_RpsToDestroy, then m_FbsToDestroy.
CallbackDestructor(log, owner) ==
  DestroyAll(Created(log, owner, "Pipeline"))
  \o DestroyAll(Created(log, owner, "RenderPass"))
  \o DestroyAll(Created(log, owner, "Framebuffer"))

\* ~PixelHistoryShaderCache
DeleteShaderCache(log) == DestroyAll(Created(log, "shaderCache", "ShaderModule"))

RECURSIVE DrawObjects(_, _, _, _, _)
\* The objects the PreDraw of owner's callback creates for the draws among ids, from
\* the i-th event on: for each draw one object per <<type, role>> of kinds.  Every
\* draw of the frame binds a pipeline, render pass and framebuffer of its own, so
\* no cache of a callback answers for two draws.
DrawObjects(evs, ids, owner, kinds, i) ==
  IF i > Len(evs) THEN <<>>
  ELSE (IF evs[i].cmd = "draw" /\ evs[i].eventId \in ids
        THEN [k \in DOMAIN kinds |-> Obj(kinds[k][1], owner, evs[i].eventId, kinds[k][2])]
        ELSE <<>>)
       \o DrawObjects(evs, ids, owner, kinds, i + 1)

\* PixelHistoryShaderCache::GetFixedColShader and GetPrimitiveIdShader make one module
\* for framebufferIndex 0 when first asked.
WithShader(role, objs) ==
  IF objs = <<>> THEN <<>> ELSE <<Obj("ShaderModule", "shaderCache", 0, role)>> \o objs

\* VulkanOcclusionCallback::PreDraw: GetPixelOcclusionPipeline for every draw.
OcclusionObjects(evs) ==
  WithShader("FixedColFS",
             DrawObjects(evs, {evs[i].eventId : i \in DOMAIN evs}, "occlusion",
                         <<<<"Pipeline", "">>>>, 1))

\* VulkanColorAndStencilCallback::PreDraw: CreateRenderPass, CreateFramebuffer and
\* GetPipelineReplacements for the draws of m_Events in the primary command buffer.
CaptureObjects(evs, mods) ==
  DrawObjects(evs, {evs[i].eventId : i \in {j \in DOMAIN evs : ~evs[j].secondary}}
                   \cap Range(mods),
              "capture",
              <<<<"RenderPass", "">>, <<"Framebuffer", "">>,
                <<"Pipeline", "originalShaderStencil">>,
                <<"Pipeline", "fixedShaderStencil">>>>, 1)

\* VulkanPixelHistoryPerFragmentCallback::PreDraw: CreateRenderPass, CreateFramebuffer
\* and CreatePipelines for the draws of m_EventFragments.
PerFragmentObjects(evs, frags) ==
  WithShader("PrimIDFS",
             DrawObjects(evs, DOMAIN frags, "perFragment",
                         <<<<"RenderPass", "">>, <<"Framebuffer", "">>,
                           <<"Pipeline", "postModPipe">>, <<"Pipeline", "shaderOutPipe">>,
                           <<"Pipeline", "primitiveIdPipe">>>>, 1))

\* VulkanPixelHistoryDiscardedFragmentsCallback::PreDraw: CreatePipeline for the
\* draws of m_Events.
DiscardedObjects(evs, prims) ==
  DrawObjects(evs, DOMAIN prims, "discarded", <<<<"Pipeline", "">>>>, 1)

\* The flags of TestsFailedCallback::CreatePipeline.
PipelineCreationFlags_DisableCulling == "PipelineCreationFlags_DisableCulling"
PipelineCreationFlags_DisableDepthTest == "PipelineCreationFlags_DisableDepthTest"
PipelineCreationFlags_DisableStencilTest == "PipelineCreationFlags_DisableStencilTest"
PipelineCreationFlags_DisableDepthBoundsTest == "PipelineCreationFlags_DisableDepthBoundsTest"
PipelineCreationFlags_FixedColorShader == "PipelineCreationFlags_FixedColorShader"
PipelineCreationFlags_IntersectOriginalScissor == "PipelineCreationFlags_IntersectOriginalScissor"

\* pipeFlags of the pipeline ReplayDrawWithTests creates for the redraw of a test.
TestPipeFlags(test) ==
  CASE test = TestEnabled_Culling ->
         {PipelineCreationFlags_DisableDepthTest, PipelineCreationFlags_DisableDepthBoundsTest,
          PipelineCreationFlags_DisableStencilTest, PipelineCreationFlags_FixedColorShader}
    [] test = TestEnabled_Scissor ->
         {PipelineCreationFlags_IntersectOriginalScissor,
          PipelineCreationFlags_DisableDepthTest, PipelineCreationFlags_DisableDepthBoundsTest,
          PipelineCreationFlags_DisableStencilTest, PipelineCreationFlags_FixedColorShader}
    [] test = TestEnabled_SampleMask ->
         {PipelineCreationFlags_DisableDepthBoundsTest, PipelineCreationFlags_DisableStencilTest,
          PipelineCreationFlags_DisableDepthTest, PipelineCreationFlags_FixedColorShader}
    [] test = TestEnabled_DepthBounds ->
         {PipelineCreationFlags_DisableStencilTest, PipelineCreationFlags_DisableDepthTest,
          PipelineCreationFlags_FixedColorShader}
    [] test = TestEnabled_StencilTesting ->
         {PipelineCreationFlags_DisableDepthTest, PipelineCreationFlags_FixedColorShader}
    [] test = TestEnabled_DepthTesting ->
         {PipelineCreationFlags_DisableStencilTest, PipelineCreationFlags_FixedColorShader}
    [] test = TestEnabled_FragmentDiscard ->
         {PipelineCreationFlags_DisableDepthBoundsTest, PipelineCreationFlags_DisableStencilTest,
          PipelineCreationFlags_DisableDepthTest}

\* A ScissorToPixel that takes the rows of every viewport to begin at view.y.
ScissorToPixel_HeightUnsigned(view, scissor) ==
  IF \/ PixelX < view.x \/ PixelY < view.y
     \/ PixelX >= view.x + view.width \/ PixelY >= view.y + view.height
  THEN Rect(0, 0, 0, 0)
  ELSE Rect(PixelX, PixelY, 1, 1)

\* VulkanPixelHistoryCallback::ScissorToPixel
ScissorToPixel(view, scissor) ==
  LET y_start == IF view.height < 0 THEN view.y + view.height ELSE view.y
      y_end == IF view.height < 0 THEN view.y ELSE view.y + view.height
  IN IF PixelX < view.x \/ PixelY < y_start \/ PixelX >= view.x + view.width \/ PixelY >= y_end
     THEN Rect(0, 0, 0, 0)
     ELSE Rect(PixelX, PixelY, 1, 1)

\* VulkanPixelHistoryCallback::IntersectScissors: newScissor afterwards.
IntersectScissors(originalScissor, newScissor) ==
  IF \/ originalScissor.x > newScissor.x
     \/ originalScissor.x + originalScissor.w < newScissor.x + newScissor.w
     \/ originalScissor.y > newScissor.y
     \/ originalScissor.y + originalScissor.h < newScissor.y + newScissor.h
  THEN Rect(0, 0, 0, 0)
  ELSE newScissor

\* A CreatePipeline that does not act on PipelineCreationFlags_DisableDepthTest.
CreatePipeline_KeepsDepthTest(p, pipeCreateFlags) ==
  [p EXCEPT
     !.sampleMask = PixelSampleMask,
     !.cullMode = IF PipelineCreationFlags_DisableCulling \in pipeCreateFlags
                  THEN "NONE" ELSE @,
     !.stencilTestEnable = IF PipelineCreationFlags_DisableStencilTest \in pipeCreateFlags
                           THEN FALSE ELSE @,
     !.depthBoundsEnable = IF PipelineCreationFlags_DisableDepthBoundsTest \in pipeCreateFlags
                           THEN FALSE ELSE @,
     !.scissors = IF p.dynamicScissor THEN @
                  ELSE [i \in DOMAIN @ |->
                          IF i \notin DOMAIN p.views THEN @[i]
                          ELSE
                            LET pixel == ScissorToPixel(p.views[i], @[i])
                            IN IF PipelineCreationFlags_IntersectOriginalScissor
                                    \in pipeCreateFlags
                               THEN IntersectScissors(pixel, pixel) ELSE pixel]]

\* The state of the pipeline TestsFailedCallback::CreatePipeline creates from the
\* pipeline p of the draw.  The scissors of a pipeline with dynamic scissors are
\* left alone.  For static ones pScissors is vs->pScissors: ScissorToPixel rewrites
\* the rectangle IntersectScissors then takes as the original.
CreatePipeline(p, pipeCreateFlags) ==
  [p EXCEPT
     !.sampleMask = PixelSampleMask,
     !.cullMode = IF PipelineCreationFlags_DisableCulling \in pipeCreateFlags
                  THEN "NONE" ELSE @,
     !.depthTestEnable = IF PipelineCreationFlags_DisableDepthTest \in pipeCreateFlags
                         THEN FALSE ELSE @,
     !.stencilTestEnable = IF PipelineCreationFlags_DisableStencilTest \in pipeCreateFlags
                           THEN FALSE ELSE @,
     !.depthBoundsEnable = IF PipelineCreationFlags_DisableDepthBoundsTest \in pipeCreateFlags
                           THEN FALSE ELSE @,
     !.scissors = IF p.dynamicScissor THEN @
                  ELSE [i \in DOMAIN @ |->
                          IF i \notin DOMAIN p.views THEN @[i]
                          ELSE
                            LET pixel == ScissorToPixel(p.views[i], @[i])
                            IN IF PipelineCreationFlags_IntersectOriginalScissor
                                    \in pipeCreateFlags
                               THEN IntersectScissors(pixel, pixel) ELSE pixel]]

-----------------------------------------------------------------------------
(* VulkanReplay::PixelHistory as a state machine.                          *)

UndefinedFormat == "VK_FORMAT_UNDEFINED"

\* The draws that rasterise fragments at the pixel: the ones PixelHistory keeps.
DrawsOf(evs, mods) == {evs[i].eventId : i \in {j \in DOMAIN evs : evs[j].cmd = "draw"}} \cap Range(mods)

RECURSIVE TotalFragments(_, _)
TotalFragments(frs, ids) ==
  IF ids = {} THEN 0
  ELSE LET e == CHOOSE x \in ids : TRUE IN Len(frs[e]) + TotalFragments(frs, ids \ {e})

\* The fragments of a frame with at most MaxFrags fragments at the pixel.  The
\* draws of the secondary command buffer (ids in sec) are never measured fragment by
\* fragment: all that shows of them is whether they write the pixel.
FrameFragments(ids, sec) ==
  {frs \in [ids -> FragLists] :
     /\ TotalFragments(frs, ids) <= MaxFrags
     /\ \A e \in ids \cap sec :
          frs[e] \in {<<>>, <<[primitiveID |-> 0, discard |-> FALSE]>>}}

MapMemory == Step("MapMemory", "resources", "bufferMemory")

UnmapMemory == Step("UnmapMemory", "resources", "bufferMemory")

\* The CPU reads, through the mapping, what the pass of owner left in dstBuffer.
ReadBack(owner) == Step("Read", owner, "dstBuffer")

VK_SUCCESS == "VK_SUCCESS"

\* What a Vulkan call of the pass can return.
VkResults == {VK_SUCCESS, "VK_ERROR_DEVICE_LOST"}

\* RDCASSERTEQUAL(vkr, VK_SUCCESS): the macro reports a result that is not the
\* expected one; the statement after it runs in either case.
RDCASSERTEQUAL(vkr, expected) ==
  IF vkr = expected THEN <<>> ELSE <<Step("RDCASSERTEQUAL", "log", vkr)>>

\* FetchOcclusionResults of owner's callback: vkGetQueryPoolResults, which returns
\* vkr, unless the callback has no query.
GetQueryPoolResults(owner, queries, vkr) ==
  IF MapSize(queries) = 0 THEN <<>>
  ELSE <<Step("GetQueryPoolResults", owner, vkr)>> \o RDCASSERTEQUAL(vkr, VK_SUCCESS)

\* The end of PixelHistory: PixelHistoryDestroyResources, DestroyQueryPool, delete
\* shaderCache, and at the return the destructors of cb and occlCb.
\* The driver has no draw callback.
NoCallback == "NULL"

\* WrappedVulkan::SetDrawcallCB
SetDrawcallCB(d, cb) == [d EXCEPT !.cb = cb]

\* A constructor that registers the callback only when the driver has none.
VulkanPixelHistoryCallback_IfNone(d, this) ==
  IF d.cb = NoCallback THEN SetDrawcallCB(d, this) ELSE d

\* VulkanPixelHistoryCallback::VulkanPixelHistoryCallback registers the new object.
VulkanPixelHistoryCallback(d, this) == SetDrawcallCB(d, this)

\* VulkanPixelHistoryCallback::~VulkanPixelHistoryCallback registers none, whichever
\* callback the driver has.
DestroyPixelHistoryCallback(d, this) == SetDrawcallCB(d, NoCallback)

\* m_pDriver->ReplayLog of a pass: the driver calls the callback it has.
ReplayLog(d, pass) == [d EXCEPT !.replays = Append(@, [pass |-> pass, cb |-> d.cb])]

Constructed(this) == <<"construct", this>>
Replayed(pass) == <<"replay", pass>>
Destroyed(this) == <<"destroy", this>>

RECURSIVE Callbacks(_, _)
\* The constructions, replays and destructions of a step, in program order.
Callbacks(d, steps) ==
  IF steps = <<>> THEN d
  ELSE Callbacks(CASE Head(steps)[1] = "construct" -> VulkanPixelHistoryCallback(d, Head(steps)[2])
                   [] Head(steps)[1] = "replay" -> ReplayLog(d, Head(steps)[2])
                   [] Head(steps)[1] = "destroy" -> DestroyPixelHistoryCallback(d, Head(steps)[2]),
                 Tail(steps))

\* return history: cb and occlCb go out of scope, in that order; tfCb is a pointer
\* and nothing deletes it.
ReturnCallbacks == <<Destroyed("capture"), Destroyed("occlusion")>>

\* The driver's callback once the candidate filter and the capture pass have run.
CallbacksAfterCapture ==
  Callbacks([cb |-> NoCallback, replays |-> <<>>],
            <<Constructed("occlusion"), Replayed("occlusion"),
              Constructed("capture"), Replayed("capture")>>)

ReturnHistory(log) ==
  PixelHistoryDestroyResources \o DestroyQueryPool("occlusion") \o DeleteShaderCache(log)
  \o CallbackDestructor(log, "capture") \o CallbackDestructor(log, "occlusion")

\* The calls of a step that leaves the pipelines of the diagnosis pass alone.
Logged(made) ==
  /\ gpuLog' = gpuLog \o made
  /\ UNCHANGED <<drawcallCB, tfPipeCache, tfBound>>

\* The calls of a step in which callbacks are constructed, replayed with or destroyed.
LoggedPass(made, steps) ==
  /\ gpuLog' = gpuLog \o made
  /\ drawcallCB' = Callbacks(drawcallCB, steps)
  /\ UNCHANGED <<tfPipeCache, tfBound>>

HistoryUntouched ==
  UNCHANGED <<tfEventFlags, tfQueries, tfResults, tfConsulted, history, eventsWithFrags,
              pfEventOffsets, discardedPrims, dcIndices, dcResults>>

InitHistory(evs) ==
  /\ pc = "start"
  /\ events = evs
  /\ targetFormat \in {ResourceFmt, UndefinedFormat}
  /\ depthOut \in BOOLEAN
  /\ fragments = EmptyMap
  /\ occlQueries = EmptyMap
  /\ occlResults = <<>>
  /\ modEvents = <<>>
  /\ drawEvents = <<>>
  /\ cbEventIndices = EmptyMap
  /\ dstBuffer = EmptyMap
  /\ tfEventFlags = EmptyMap
  /\ tfQueries = EmptyMap
  /\ tfResults = <<>>
  /\ tfConsulted = {}
  /\ history = <<>>
  /\ eventsWithFrags = EmptyMap
  /\ pfEventOffsets = EmptyMap
  /\ discardedPrims = EmptyMap
  /\ dcIndices = EmptyMap
  /\ dcResults = <<>>
  /\ gpuLog = <<>>
  /\ drawcallCB = [cb |-> NoCallback, replays |-> <<>>]
  /\ tfPipeCache = EmptyMap
  /\ tfBound = EmptyMap

\* Sample 0 of a single-sampled target: sampleIdx 0 and bit 0 of the mask.
SingleSampled ==
  [sample |-> 0, samples |-> 1, computed |-> TRUE, sampleIdx |-> 0, sampleMask |-> {0}]

\* No shader was asked for yet.
InitCacheEmpty ==
  /\ shaderReplacements = EmptyMap
  /\ shaderModules = EmptyMap
  /\ stripRuns = EmptyMap
  /\ calls = <<>>
  /\ stages = <<>>
  /\ redrawPipes = <<>>
  /\ sampling = SingleSampled

InitCacheIdle ==
  /\ InitCacheEmpty
  /\ strip = [spirv |-> <<>>, functions |-> <<>>, entryId |-> 0, queue |-> {}, patched |-> {},
              order |-> <<>>, modified |-> FALSE]

Init == (\E evs \in EventLists(MergePipelines) : InitHistory(evs)) /\ InitCacheIdle

\* if(events.empty()) return history;  if(imginfo.format == VK_FORMAT_UNDEFINED) return history;
EarlyReturn ==
  /\ pc = "start"
  /\ events = <<>> \/ targetFormat = UndefinedFormat
  /\ pc' = "done"
  /\ UNCHANGED <<events, targetFormat, depthOut, fragments, occlQueries, occlResults,
                 modEvents, drawEvents, cbEventIndices, dstBuffer, cacheVars, gpuVars>>
  /\ HistoryUntouched

\* The replay with VulkanOcclusionCallback.
OcclusionReplay ==
  /\ pc = "start"
  /\ events # <<>> /\ targetFormat # UndefinedFormat
  /\ occlQueries' = OcclusionPreDraws(EmptyMap, events, 1)
  /\ pc' = "occlusion"
  /\ LoggedPass(CreateOcclusionPool("occlusion") \o PixelHistorySetupResources
                \o ReplayPass("occlusion", CreateAll(OcclusionObjects(events))),
                <<Constructed("occlusion"), Replayed("occlusion")>>)
  /\ UNCHANGED <<events, targetFormat, depthOut, fragments, occlResults, modEvents,
                 drawEvents, cbEventIndices, dstBuffer, cacheVars>>
  /\ HistoryUntouched

\* VulkanOcclusionCallback::FetchOcclusionResults when vkGetQueryPoolResults returns
\* vkr.  On an error the call leaves in m_OcclusionResults what the device wrote
\* before it failed.
FetchOcclusionResultsWith(vkr) ==
  /\ pc = "occlusion"
  /\ IF MapSize(occlQueries) = 0 THEN occlResults' = occlResults
     ELSE occlResults' \in [0..(MapSize(occlQueries) - 1) -> OcclusionValues]
  /\ pc' = "gather"
  /\ Logged(GetQueryPoolResults("occlusion", occlQueries, vkr))
  /\ UNCHANGED <<events, targetFormat, depthOut, fragments, occlQueries, modEvents,
                 drawEvents, cbEventIndices, dstBuffer, cacheVars>>
  /\ HistoryUntouched

FetchOcclusionResults == FetchOcclusionResultsWith(VK_SUCCESS)

\* The loop over events that fills modEvents and drawEvents.
Gather ==
  /\ pc = "gather"
  /\ LET g == GatherEvents(events, occlQueries, occlResults, 1)
     IN modEvents' = g.modEvents /\ drawEvents' = g.drawEvents
  /\ pc' = "capture"
  /\ Logged(<<>>)
  /\ UNCHANGED <<events, targetFormat, depthOut, fragments, occlQueries, occlResults,
                 cbEventIndices, dstBuffer, cacheVars>>
  /\ HistoryUntouched

\* The replay with VulkanColorAndStencilCallback; the frame shows what its draws
\* rasterise at the pixel.
Capture ==
  /\ pc = "capture"
  /\ \E frs \in FrameFragments(DrawsOf(events, modEvents), SecondaryIds(events)) :
       LET st == CaptureReplay([indices |-> EmptyMap, buf |-> dstBuffer, copies |-> <<>>], events, frs,
                               modEvents, depthOut, 1)
       IN /\ fragments' = frs
          /\ cbEventIndices' = st.indices
          /\ dstBuffer' = st.buf
  /\ pc' = IF Len(drawEvents) > 0 THEN "testsFailed" ELSE "build"
  /\ LoggedPass(ReplayPass("capture", CreateAll(CaptureObjects(events, modEvents))),
                <<Constructed("capture"), Replayed("capture")>>)
  /\ UNCHANGED <<events, targetFormat, depthOut, occlQueries, occlResults, modEvents,
                 drawEvents, cacheVars>>
  /\ HistoryUntouched

RECURSIVE ReplayDrawPipelines(_, _, _)
\* The CreatePipeline and ReplayDraw calls of ReplayDrawWithTests for the tests of the
\* sequence: a pipeline is created when m_PipeCache has none for <<basePipeline,
\* pipeFlags>>, for the scissor test dynamic scissors are intersected with
\* prevScissors (the application's), then ReplayDraw binds the pipeline and begins
\* the query of the test.  st.scissors is pipestate.scissors; the render state at
\* the redraw is kept per <<event id, test>>.
ReplayDrawPipelines(st, ev, tests) ==
  IF tests = <<>> THEN st
  ELSE
    LET test == Head(tests)
        pipeKey == <<ev.eventId, TestPipeFlags(test)>>
        miss == pipeKey \notin DOMAIN st.cache
        prevScissors == ev.pipe.scissors
        scissors ==
          IF test = TestEnabled_Scissor /\ ev.pipe.dynamicScissor
          THEN [i \in DOMAIN st.scissors |->
                  IF i \in DOMAIN ev.pipe.views
                  THEN IntersectScissors(prevScissors[i], st.scissors[i])
                  ELSE st.scissors[i]]
          ELSE st.scissors
    IN ReplayDrawPipelines(
         [st EXCEPT
            !.cache = IF miss THEN MapPut(@, pipeKey, CreatePipeline(ev.pipe, TestPipeFlags(test)))
                      ELSE @,
            !.scissors = scissors,
            !.bound = MapPut(@, <<ev.eventId, test>>,
                             [pipeline |-> pipeKey, scissors |-> scissors]),
            !.made = @ \o (IF miss
                           THEN <<Call("Create", Obj("Pipeline", "testsFailed", ev.eventId, test))>>
                           ELSE <<>>)
                       \o <<Call("BeginQuery", Obj("Query", "testsFailed", ev.eventId, test))>>],
         ev, Tail(tests))

RECURSIVE TestsFailedPreDraws(_, _, _, _)
\* TestsFailedCallback::PreDraw for the draws of the frame from the i-th on.
TestsFailedPreDraws(st, evs, draws, i) ==
  IF i > Len(evs) THEN st
  ELSE
    LET ev == evs[i]
        eventFlags == CalculateEventFlags(ev.pipe)
        pixelScissors ==
          IF ev.pipe.dynamicScissor
          THEN [v \in DOMAIN ev.pipe.scissors |->
                  IF v \in DOMAIN ev.pipe.views
                  THEN ScissorToPixel(ev.pipe.views[v], ev.pipe.scissors[v])
                  ELSE ev.pipe.scissors[v]]
          ELSE ev.pipe.scissors
        replayed == ReplayDrawPipelines([st EXCEPT !.scissors = pixelScissors], ev,
                                        ReplayDrawWithTests(eventFlags))
    IN TestsFailedPreDraws(
         IF ev.cmd = "draw" /\ ev.eventId \in Range(draws)
         THEN [replayed EXCEPT
                 !.flags = MapPut(st.flags, ev.eventId, eventFlags),
                 !.queries = ReplayDraws(st.queries, ev.eventId, ReplayDrawWithTests(eventFlags))]
         ELSE st,
         evs, draws, i + 1)

\* The results the queries of the diagnosis pass can give.  The query of the
\* fragment discard test runs the draw's shader with every other test off: it counts
\* the fragments the shader keeps.
TestsFailedResults(queries, frs) ==
  {r \in [0..(MapSize(queries) - 1) -> OcclusionValues] :
     \A k \in DOMAIN queries :
       (k[2] = TestEnabled_FragmentDiscard /\ k[1] \in DOMAIN frs) =>
          (r[queries[k]] = 0 <=> NumSurviving(frs[k[1]]) = 0)}

FrameUnchanged ==
  UNCHANGED <<events, targetFormat, depthOut, fragments, occlQueries, occlResults, modEvents,
              drawEvents, cbEventIndices, cacheVars>>

\* The replay with TestsFailedCallback.
TestsFailedReplay ==
  /\ pc = "testsFailed"
  /\ LET st == TestsFailedPreDraws([flags |-> EmptyMap, queries |-> EmptyMap,
                                    cache |-> EmptyMap, bound |-> EmptyMap, made |-> <<>>,
                                    scissors |-> <<>>],
                                   events, drawEvents, 1)
     IN /\ tfEventFlags' = st.flags
        /\ tfQueries' = st.queries
        /\ tfPipeCache' = st.cache
        /\ tfBound' = st.bound
        /\ gpuLog' = gpuLog \o CreateOcclusionPool("testsFailed")
                            \o ReplayPass("testsFailed", st.made)
        /\ drawcallCB' = Callbacks(drawcallCB,
                                   <<Constructed("testsFailed"), Replayed("testsFailed")>>)
  /\ pc' = "testsFetch"
  /\ FrameUnchanged
  /\ UNCHANGED <<dstBuffer, tfResults, tfConsulted, history, eventsWithFrags, pfEventOffsets,
                 discardedPrims, dcIndices, dcResults>>

\* TestsFailedCallback::FetchOcclusionResults
TestsFailedFetch ==
  /\ pc = "testsFetch"
  /\ IF MapSize(tfQueries) = 0 THEN tfResults' = tfResults
     ELSE tfResults' \in TestsFailedResults(tfQueries, fragments)
  /\ pc' = "build"
  /\ Logged(GetQueryPoolResults("testsFailed", tfQueries, VK_SUCCESS) \o DestroyQueryPool("testsFailed"))
  /\ FrameUnchanged
  /\ UNCHANGED <<dstBuffer, tfEventFlags, tfQueries, tfConsulted, history, eventsWithFrags,
                 pfEventOffsets, discardedPrims, dcIndices, dcResults>>

\* The loop that pushes one PixelModification per kept candidate.
Build ==
  /\ pc = "build"
  /\ \E garbage \in [MissingQueries(drawEvents, tfEventFlags, tfQueries) -> OcclusionValues] :
       LET b == BuildHistory(events, drawEvents, tfEventFlags, tfQueries, tfResults, garbage, 1)
       IN history' = b.history /\ tfConsulted' = b.consulted
  /\ pc' = "expand"
  /\ Logged(<<>>)
  /\ FrameUnchanged
  /\ UNCHANGED <<dstBuffer, tfEventFlags, tfQueries, tfResults, eventsWithFrags,
                 pfEventOffsets, discardedPrims, dcIndices, dcResults>>

\* The loop that fills pre- and post-modification values from the capture pass and
\* makes one entry per fragment.  Without fragments PixelHistory returns after it.
Expand ==
  /\ pc = "expand"
  /\ \E e \in ExpandHistory(history, EmptyMap, cbEventIndices, dstBuffer, 0) :
       /\ history' = e.history
       /\ eventsWithFrags' = e.eventsWithFrags
       /\ pc' = IF MapSize(e.eventsWithFrags) > 0 THEN "perFragment" ELSE "done"
       /\ LoggedPass(<<MapMemory>>
                     \o (IF \E h \in DOMAIN history : GetEventIndex(cbEventIndices, history[h].eventId) # -1
                         THEN <<ReadBack("capture")>> ELSE <<>>)
                     \o <<UnmapMemory>>
                     \o (IF MapSize(e.eventsWithFrags) > 0 THEN <<>> ELSE ReturnHistory(gpuLog)),
                     IF MapSize(e.eventsWithFrags) > 0 THEN <<>> ELSE ReturnCallbacks)
  /\ FrameUnchanged
  /\ UNCHANGED <<dstBuffer, tfEventFlags, tfQueries, tfResults, tfConsulted, pfEventOffsets,
                 discardedPrims, dcIndices, dcResults>>

\* The replay with VulkanPixelHistoryPerFragmentCallback.
PerFragment ==
  /\ pc = "perFragment"
  /\ LET st == PerFragmentReplay([offsets |-> EmptyMap, fragsProcessed |-> 0,
                                  buf |-> dstBuffer],
                                 events, fragments, eventsWithFrags, depthOut, 1)
     IN pfEventOffsets' = st.offsets /\ dstBuffer' = st.buf
  /\ pc' = "collect"
  /\ LoggedPass(ReplayPass("perFragment", CreateAll(PerFragmentObjects(events, eventsWithFrags)))
                \o <<MapMemory>>,
                <<Constructed("perFragment"), Replayed("perFragment")>>)
  /\ FrameUnchanged
  /\ UNCHANGED <<tfEventFlags, tfQueries, tfResults, tfConsulted, history, eventsWithFrags,
                 discardedPrims, dcIndices, dcResults>>

\* The loop that reads the primitive ids back.
Collect ==
  /\ pc = "collect"
  /\ LET c == CollectPrimitiveIds(history, EmptyMap, eventsWithFrags, pfEventOffsets,
                                  dstBuffer, 0)
     IN /\ history' = c.history
        /\ discardedPrims' = c.discardedPrims
        /\ pc' = IF PrimitivesToCheck(c.discardedPrims) > 0 THEN "discarded" ELSE "fill"
  /\ Logged(<<ReadBack("perFragment")>>)
  /\ FrameUnchanged
  /\ UNCHANGED <<dstBuffer, tfEventFlags, tfQueries, tfResults, tfConsulted, eventsWithFrags,
                 pfEventOffsets, dcIndices, dcResults>>

\* The replay with VulkanPixelHistoryDiscardedFragmentsCallback, its
\* FetchOcclusionResults, and the loop that sets shaderDiscarded of every entry.
Discarded ==
  /\ pc = "discarded"
  /\ LET st == DiscardedReplay([indices |-> EmptyMap, begun |-> EmptyMap], events,
                               discardedPrims, Max(DOMAIN eventsWithFrags), 1)
     IN /\ dcIndices' = st.indices
        /\ \E r \in DiscardedResults(st.begun, fragments, MapSize(st.indices)) :
             /\ dcResults' = r
             /\ history' \in ApplyDiscarded(history, st.indices, r)
  /\ pc' = "fill"
  /\ LET replayed == CreateOcclusionPool("discarded")
                     \o ReplayPass("discarded", CreateAll(DiscardedObjects(events, discardedPrims)))
     IN LoggedPass(replayed \o GetQueryPoolResults("discarded", dcIndices', VK_SUCCESS)
                   \o DestroyQueryPool("discarded") \o CallbackDestructor(replayed, "discarded"),
                   <<Constructed("discarded"), Replayed("discarded"), Destroyed("discarded")>>)
  /\ FrameUnchanged
  /\ UNCHANGED <<dstBuffer, tfEventFlags, tfQueries, tfResults, tfConsulted, eventsWithFrags,
                 pfEventOffsets, discardedPrims>>

\* The loop that fills shader output and post-modification value per fragment;
\* PixelHistory returns after it.
Fill ==
  /\ pc = "fill"
  /\ history' = FillPerFragment(history, eventsWithFrags, pfEventOffsets, dstBuffer, 0, 0)
  /\ pc' = "done"
  /\ LoggedPass(<<ReadBack("perFragment")>> \o CallbackDestructor(gpuLog, "perFragment")
                \o ReturnHistory(gpuLog),
                <<Destroyed("perFragment")>> \o ReturnCallbacks)
  /\ FrameUnchanged
  /\ UNCHANGED <<dstBuffer, tfEventFlags, tfQueries, tfResults, tfConsulted, eventsWithFrags,
                 pfEventOffsets, discardedPrims, dcIndices, dcResults>>

Next ==
  \/ EarlyReturn
  \/ OcclusionReplay
  \/ FetchOcclusionResults
  \/ Gather
  \/ Capture
  \/ TestsFailedReplay
  \/ TestsFailedFetch
  \/ Build
  \/ Expand
  \/ PerFragment
  \/ Collect
  \/ Discarded
  \/ Fill

Spec == Init /\ [][Next]_vars

-----------------------------------------------------------------------------
(* PixelHistory of a single event when the vkGetQueryPoolResults of the    *)
(* candidate filter pass may return an error.                              *)

InitFault ==
  (\E evs \in EventLists(MergePipelines) : Len(evs) <= 1 /\ InitHistory(evs)) /\ InitCacheIdle

FetchOcclusionResultsFault == \E vkr \in VkResults : FetchOcclusionResultsWith(vkr)

NextFault ==
  \/ EarlyReturn
  \/ OcclusionReplay
  \/ FetchOcclusionResultsFault
  \/ Gather
  \/ Capture
  \/ TestsFailedReplay
  \/ TestsFailedFetch
  \/ Build
  \/ Expand
  \/ PerFragment
  \/ Collect
  \/ Discarded
  \/ Fill

SpecFault == InitFault /\ [][NextFault]_vars

-----------------------------------------------------------------------------
(* PixelHistory of a frame whose vkCmdExecuteCommands runs a secondary     *)
(* command buffer with SecondaryLen candidates, at most one of them a     *)
(* draw, optionally followed by a draw in the primary command buffer.      *)

SecondaryLen == 3

\* The k-th kind of candidate at event id i of the secondary command buffer.
SecondaryEvent(i, k) ==
  [eventId |-> i, usage |-> k.usage, cmd |-> k.cmd, secondary |-> TRUE, pipe |-> DefaultPipeline]

PrimaryDraw(i) ==
  [eventId |-> i, usage |-> "ColorTarget", cmd |-> "draw", secondary |-> FALSE,
   pipe |-> DefaultPipeline]

SecondaryFrames ==
  {[i \in 1..SecondaryLen |-> SecondaryEvent(i, ks[i])] \o after :
     ks \in {f \in [1..SecondaryLen -> EventKinds] :
               Cardinality({i \in 1..SecondaryLen : f[i].cmd = "draw"}) <= 1},
     after \in {<<>>, <<PrimaryDraw(SecondaryLen + 1)>>}}

InitSecondary ==
  /\ \E evs \in SecondaryFrames : InitHistory(evs)
  /\ targetFormat = ResourceFmt
  /\ depthOut = FALSE
  /\ InitCacheIdle

NextSecondary ==
  \/ OcclusionReplay
  \/ FetchOcclusionResults
  \/ Gather
  \/ Capture
  \/ TestsFailedReplay
  \/ TestsFailedFetch
  \/ Build
  \/ Expand
  \/ PerFragment
  \/ Collect
  \/ Discarded
  \/ Fill

SpecSecondary == InitSecondary /\ [][NextSecondary]_vars

-----------------------------------------------------------------------------
(* The diagnosis pass on its own: one draw in the primary command buffer   *)
(* that passed the candidate filter, with any pipeline state, from the     *)
(* point where TestsFailedCallback is constructed.                         *)

TestDraw(p) ==
  [eventId |-> 1, usage |-> "ColorTarget", cmd |-> "draw", secondary |-> FALSE, pipe |-> p]

TestFragLists == {fl \in FragLists : Len(fl) <= 1}

\* The state before the diagnosis pass of a frame evs of draws in the primary
\* command buffer that all passed the candidate filter, with the fragments frs.
InitAfterCapture(evs, frs) ==
    LET ids == [i \in DOMAIN evs |-> evs[i].eventId]
        st == CaptureReplay([indices |-> EmptyMap, buf |-> EmptyMap, copies |-> <<>>], evs,
                            frs, ids, FALSE, 1)
    IN /\ pc = "testsFailed"
       /\ events = evs
       /\ targetFormat = ResourceFmt
       /\ depthOut = FALSE
       /\ fragments = frs
       /\ occlQueries = OcclusionPreDraws(EmptyMap, evs, 1)
       /\ occlResults = [q \in 0..(Len(evs) - 1) |-> 1]
       /\ modEvents = ids
       /\ drawEvents = ids
       /\ cbEventIndices = st.indices
       /\ dstBuffer = st.buf
       /\ tfEventFlags = EmptyMap
       /\ tfQueries = EmptyMap
       /\ tfResults = <<>>
       /\ tfConsulted = {}
       /\ history = <<>>
       /\ eventsWithFrags = EmptyMap
       /\ pfEventOffsets = EmptyMap
       /\ discardedPrims = EmptyMap
       /\ dcIndices = EmptyMap
       /\ dcResults = <<>>
       /\ gpuLog = CreateOcclusionPool("occlusion") \o PixelHistorySetupResources
                   \o ReplayPass("occlusion", CreateAll(OcclusionObjects(evs)))
                   \o GetQueryPoolResults("occlusion", OcclusionPreDraws(EmptyMap, evs, 1), VK_SUCCESS)
                   \o ReplayPass("capture", CreateAll(CaptureObjects(evs, ids)))
       /\ drawcallCB = CallbacksAfterCapture
       /\ tfPipeCache = EmptyMap
       /\ tfBound = EmptyMap
       /\ InitCacheIdle

InitDiagnosis(p, fl) == InitAfterCapture(<<TestDraw(p)>>, MapPut(EmptyMap, 1, fl))

InitTests == \E p \in TestPipelines, fl \in TestFragLists : InitDiagnosis(p, fl)

NextTests ==
  \/ TestsFailedReplay
  \/ TestsFailedFetch
  \/ Build
  \/ Expand
  \/ PerFragment
  \/ Collect
  \/ Discarded
  \/ Fill

SpecTests == InitTests /\ [][NextTests]_vars

-----------------------------------------------------------------------------
(* The diagnosis pass for draws that differ in their scissors and          *)
(* viewports only.                                                         *)

\* Viewports: the frame's; one to the right of the pixel; one that ends at the
\* pixel's column; one below the pixel; the pixel alone; with a negative height,
\* one whose rows include the pixel's and one whose rows end just before it.
ScissorViews ==
  {FrameViewport,
   [x |-> 2, y |-> 0, width |-> 2, height |-> 4],
   [x |-> 0, y |-> 0, width |-> 1, height |-> 4],
   [x |-> 0, y |-> 2, width |-> 4, height |-> 2],
   [x |-> 1, y |-> 1, width |-> 1, height |-> 1],
   [x |-> 0, y |-> 2, width |-> 4, height |-> -1],
   [x |-> 0, y |-> 1, width |-> 4, height |-> -1]}

\* Scissor rectangles (VkRect2D offsets are not negative): around the pixel, ending
\* just before it, of no area at it, the pixel alone, beginning after it.
ScissorRects ==
  {Rect(0, 0, 2, 2), Rect(0, 0, 1, 1), Rect(1, 1, 0, 0), Rect(1, 1, 1, 1), Rect(2, 2, 2, 2)}

\* Up to two viewports, each with its scissor, static or dynamic.
ScissorPipelines ==
  {[DefaultPipeline EXCEPT !.dynamicScissor = d, !.scissors = sc, !.views = vw] :
     d \in BOOLEAN,
     sc \in {<<>>} \cup {<<a>> : a \in ScissorRects}
                  \cup {<<a, b>> : a \in {Rect(0, 0, 2, 2), Rect(1, 1, 1, 1)}, b \in ScissorRects},
     vw \in {<<>>} \cup {<<a>> : a \in ScissorViews}
                  \cup {<<a, b>> : a \in {FrameViewport}, b \in ScissorViews}}

InitScissor ==
  \E p \in ScissorPipelines, fl \in TestFragLists :
    Len(p.views) = Len(p.scissors) /\ InitDiagnosis(p, fl)

SpecScissor == InitScissor /\ [][NextTests]_vars

-----------------------------------------------------------------------------
(* The passes after the capture pass on two draws with up to              *)
(* TwoDrawFrags fragments at the pixel between them.                       *)

TwoDrawFrags == 4

TwoDraws ==
  <<[eventId |-> 1, usage |-> "ColorTarget", cmd |-> "draw", secondary |-> FALSE,
     pipe |-> DefaultPipeline],
    [eventId |-> 2, usage |-> "ColorTarget", cmd |-> "draw", secondary |-> FALSE,
     pipe |-> DefaultPipeline]>>

InitTwoDraws ==
  \E a, b \in FragLists :
    /\ Len(a) >= 1 /\ Len(b) >= 1 /\ Len(a) + Len(b) <= TwoDrawFrags
    /\ InitAfterCapture(TwoDraws, MapPut(MapPut(EmptyMap, 1, a), 2, b))

SpecTwoDraws == InitTwoDraws /\ [][NextTests]_vars

\* The scissor block of ReplayDrawWithTests on its own, applied to the draw: the
\* dynamic scissors are set to the pixel, then "CreatePipeline(basePipeline,
\* pipeFlags, ...); if(dynamicScissor) IntersectScissors(...); ReplayDraw(...)".
ScissorBlock ==
  /\ pc = "testsFailed"
  /\ LET st == [flags |-> EmptyMap, queries |-> EmptyMap, cache |-> EmptyMap,
                bound |-> EmptyMap, made |-> <<>>, scissors |-> <<>>]
         ev == events[1]
         pixelScissors ==
           IF ev.pipe.dynamicScissor
           THEN [v \in DOMAIN ev.pipe.scissors |->
                   IF v \in DOMAIN ev.pipe.views
                   THEN ScissorToPixel(ev.pipe.views[v], ev.pipe.scissors[v])
                   ELSE ev.pipe.scissors[v]]
           ELSE ev.pipe.scissors
         block == ReplayDrawPipelines([st EXCEPT !.scissors = pixelScissors], ev,
                                      <<TestEnabled_Scissor>>)
     IN /\ tfPipeCache' = block.cache
        /\ tfBound' = block.bound
        /\ gpuLog' = gpuLog \o block.made
        /\ UNCHANGED drawcallCB
  /\ pc' = "scissorBlock"
  /\ FrameUnchanged
  /\ UNCHANGED <<dstBuffer, tfEventFlags, tfQueries, tfResults, tfConsulted, history,
                 eventsWithFrags, pfEventOffsets, discardedPrims, dcIndices, dcResults>>

SpecScissorBlock == InitScissor /\ [][ScissorBlock]_vars

-----------------------------------------------------------------------------
(* PixelHistoryShaderCache::GetShaderWithoutSideEffects.                   *)

VK_NULL_HANDLE == 0

\* The instructions of a function body as the stripper tells them apart: the
\* opcode, the callee of an OpFunctionCall, the storage class of the pointer of a
\* store.
Instruction(op) == [op |-> op, function |-> 0, storageClass |-> "None", words |-> <<>>]

OpFunctionCall(function) ==
  [op |-> "FunctionCall", function |-> function, storageClass |-> "None", words |-> <<>>]

OpStore(op, storageClass) ==
  [op |-> op, function |-> 0, storageClass |-> storageClass, words |-> <<>>]

\* An atomic instruction with its operand words: words[k] is it.word(k).
OpAtomic(op, words) == [op |-> op, function |-> 0, storageClass |-> "None", words |-> words]

\* rdcspv::OpAtomicLoad(resultType, result, pointer, memory, semantics)
OpAtomicLoad(resultType, result, pointer, memory, semantics) ==
  OpAtomic("AtomicLoad", <<resultType, result, pointer, memory, semantics>>)

\* case CopyMemory: case AtomicStore: case Store:
StoreOps == {"CopyMemory", "AtomicStore", "Store"}

\* case AtomicExchange: ... case AtomicXor:
AtomicOps == {"AtomicExchange", "AtomicCompareExchange", "AtomicCompareExchangeWeak",
              "AtomicIIncrement", "AtomicIDecrement", "AtomicIAdd", "AtomicISub", "AtomicSMin",
              "AtomicUMin", "AtomicSMax", "AtomicUMax", "AtomicAnd", "AtomicOr", "AtomicXor"}

\* The OpAtomicLoad the stripper puts in the place of the atomic instruction.
AtomicLoadOf(instr) ==
  OpAtomicLoad(instr.words[1], instr.words[2], instr.words[3], instr.words[4], instr.words[5])

\* A stripper that removes every store, whatever the storage class of its pointer.
PatchInstruction_AnyStore(instr) ==
  IF instr.op \in StoreOps \cup {"ImageWrite"}
  THEN <<Instruction("Nop")>>
  ELSE IF instr.op \in AtomicOps
       THEN <<AtomicLoadOf(instr), Instruction("Nop")>>
       ELSE <<instr>>

\* The switch over the opcode: what the editor holds in place of the instruction.
\* editor.Remove leaves a nop, editor.AddOperation puts the OpAtomicLoad before it.
PatchInstruction(instr) ==
  IF instr.op \in StoreOps
  THEN IF instr.storageClass \in {"Uniform", "StorageBuffer"}
       THEN <<Instruction("Nop")>>
       ELSE <<instr>>
  ELSE IF instr.op = "ImageWrite"
       THEN <<Instruction("Nop")>>
       ELSE IF instr.op \in AtomicOps
            THEN <<AtomicLoadOf(instr), Instruction("Nop")>>
            ELSE <<instr>>

\* A traversal that looks a callee up in the queue only.
ShouldQueue_NoVisitedSet(queue, patched, function) == function \notin queue

\* if(functionPatchQueue.find(call.function) == functionPatchQueue.end() &&
\*    patchedFunctions.find(call.function) == patchedFunctions.end())
ShouldQueue(queue, patched, function) == function \notin queue /\ function \notin patched

\* for(; it; ++it) over the body of funcId from instruction i on: the body patched so
\* far is s.body.
RECURSIVE PatchBody(_, _, _)
PatchBody(s, body, i) ==
  IF i > Len(body)
  THEN s
  ELSE LET instr == body[i]
           patch == PatchInstruction(instr)
       IN PatchBody([s EXCEPT !.queue = IF instr.op = "FunctionCall" /\
                                           ShouldQueue(s.queue, s.patched, instr.function)
                                        THEN @ \cup {instr.function}
                                        ELSE @,
                              !.body = @ \o patch,
                              !.modified = @ \/ patch # <<instr>>],
                     body, i + 1)

\* One round of while(!functionPatchQueue.empty()): the first function of the queue
\* (a std::set, so the one with the lowest id) is taken out and patched.
StripFunction(s) ==
  LET funcId == Min(s.queue)
      r == PatchBody([queue |-> s.queue \ {funcId}, patched |-> s.patched \cup {funcId},
                      body |-> <<>>, modified |-> s.modified],
                     s.functions[funcId], 1)
  IN [spirv |-> s.spirv,
      functions |-> [s.functions EXCEPT ![funcId] = r.body],
      entryId |-> s.entryId,
      queue |-> r.queue,
      patched |-> r.patched,
      order |-> Append(s.order, funcId),
      modified |-> r.modified]

\* The stripper at its first round.
StripStart(functions, entryId) ==
  [spirv |-> functions, functions |-> functions, entryId |-> entryId, queue |-> {entryId},
   patched |-> {}, order |-> <<>>, modified |-> FALSE]

RECURSIVE StripLoop(_)
StripLoop(s) == IF s.queue = {} THEN s ELSE StripLoop(StripFunction(s))

\* StripShaderSideEffects(editor, entryId): the editor afterwards and the value
\* returned (modified).
StripShaderSideEffects(functions, entryId) == StripLoop(StripStart(functions, entryId))

\* The shader modules of the capture, as rdcspv::Editor shows them: the function
\* bodies by function id. The entry point of module 1 writes to its output only
\* and its module has an image write in a function nobody calls; module 2 has two
\* functions calling each other, one of them storing to a storage buffer; the
\* other modules exchange a value atomically.
ShaderFunctions(shaderId) ==
  IF shaderId = 1
  THEN << <<Instruction("Load"), OpStore("Store", "Output")>>,
          <<Instruction("ImageWrite")>> >>
  ELSE IF shaderId = 2
       THEN << <<OpFunctionCall(2), OpStore("Store", "Function")>>,
               <<OpStore("Store", "StorageBuffer"), OpFunctionCall(1)>> >>
       ELSE << <<OpAtomic("AtomicExchange", <<"uint", "%old", "%counter", "Device", "None",
                                              "%value">>)>> >>

ShaderIds == 1..MaxShaders

EntryPoints == {"main", "absent"}

\* editor.GetEntries()
Entries(shaderId) == << [name |-> "main", id |-> 1] >>

EntryNames(shaderId) == {e.name : e \in Range(Entries(shaderId))}

\* A replacement that builds a module whenever the entry point is found.
CreateShaderReplacement_AlwaysBuilds(shaderId, entryName, fresh) ==
  IF entryName \in EntryNames(shaderId)
  THEN [module |-> fresh, stripped |-> TRUE, created |-> TRUE]
  ELSE [module |-> VK_NULL_HANDLE, stripped |-> FALSE, created |-> FALSE]

\* CreateShaderReplacement: the handle returned, whether the stripper ran and
\* whether vkCreateShaderModule was called; fresh is the handle the driver gives.
CreateShaderReplacement(shaderId, entryName, fresh) ==
  LET found == {n \in DOMAIN Entries(shaderId) : Entries(shaderId)[n].name = entryName}
  IN IF found # {}
     THEN LET entry == Entries(shaderId)[Min(found)]
          IN IF StripShaderSideEffects(ShaderFunctions(shaderId), entry.id).modified
             THEN [module |-> fresh, stripped |-> TRUE, created |-> TRUE]
             ELSE [module |-> VK_NULL_HANDLE, stripped |-> TRUE, created |-> FALSE]
     ELSE [module |-> VK_NULL_HANDLE, stripped |-> FALSE, created |-> FALSE]

\* A lookup that takes a cached VK_NULL_HANDLE for a miss.
Processed_NullIsMiss(replacements, shaderKey) ==
  shaderKey \in DOMAIN replacements /\ replacements[shaderKey] # VK_NULL_HANDLE

\* Whether GetShaderWithoutSideEffects answers from m_ShaderReplacements.
Processed(replacements, shaderKey) == shaderKey \in DOMAIN replacements

\* The members of the cache and the calls made so far, as one value.
ShaderCache ==
  [replacements |-> shaderReplacements, modules |-> shaderModules, runs |-> stripRuns,
   calls |-> calls]

\* GetShaderWithoutSideEffects on the cache c: the cache afterwards; the handle
\* returned is the module of the last call.
GetShaderWithoutSideEffects(c, shaderId, entryPoint) ==
  LET shaderKey == <<shaderId, entryPoint>>
  IN IF Processed(c.replacements, shaderKey)
     THEN [c EXCEPT !.calls = Append(@, [key |-> shaderKey,
                                         module |-> c.replacements[shaderKey]])]
     ELSE LET r == CreateShaderReplacement(shaderId, entryPoint, MapSize(c.modules) + 1)
              runs == IF shaderKey \in DOMAIN c.runs THEN c.runs[shaderKey] ELSE 0
          IN [replacements |-> MapPut(c.replacements, shaderKey, r.module),
              modules |-> IF r.created THEN MapPut(c.modules, r.module, shaderKey)
                          ELSE c.modules,
              runs |-> IF r.stripped THEN MapPut(c.runs, shaderKey, runs + 1) ELSE c.runs,
              calls |-> Append(c.calls, [key |-> shaderKey, module |-> r.module])]

\* The cache after a caller is done with it.
CacheBecomes(c) ==
  /\ Len(c.calls) <= MaxCalls
  /\ shaderReplacements' = c.replacements
  /\ shaderModules' = c.modules
  /\ stripRuns' = c.runs
  /\ calls' = c.calls

CacheCall == \E shaderId \in ShaderIds, entryPoint \in EntryPoints :
               /\ CacheBecomes(GetShaderWithoutSideEffects(ShaderCache, shaderId, entryPoint))
               /\ UNCHANGED <<histVars, gpuVars, strip, stages, redrawPipes, sampling>>

numberOfStages == 5

\* StageFromIndex(i), and StageIndex of a stage.
StageFromIndex(i) == <<"Vertex", "Tess_Control", "Tess_Eval", "Geometry", "Fragment">>[i + 1]

StageIndex(stage) == CHOOSE i \in 0..(numberOfStages - 1) : StageFromIndex(i) = stage

\* ResourceId(): no shader in the stage.
NoShader == 0

\* The module of a stage of a create info: a shader module of the capture, a
\* module the cache built, or the fixed colour shader.
OriginalModule(shaderId) == [kind |-> "original", handle |-> shaderId]

ReplacementModule(module) == [kind |-> "replacement", handle |-> module]

FixedColShader == [kind |-> "fixedCol", handle |-> 0]

\* pipeCreateInfo.pStages of the pipeline p: its stages in stage order.
RECURSIVE PipelineStages(_, _)
PipelineStages(p, i) ==
  IF i >= numberOfStages
  THEN <<>>
  ELSE (IF p.shaders[i + 1].module = NoShader
        THEN <<>>
        ELSE << [stage |-> StageFromIndex(i), module |-> OriginalModule(p.shaders[i + 1].module),
                 pName |-> p.shaders[i + 1].entryPoint] >>)
       \o PipelineStages(p, i + 1)

\* The "Clean shaders" loop of MakeAllPassIncrementStencilPipelineCI from stage i
\* on; eventFlags holds the stages with a read-write resource. r is the cache and
\* replacementShaders.
RECURSIVE CleanShaders(_, _, _, _)
CleanShaders(r, p, eventFlags, i) ==
  IF i >= numberOfStages
  THEN r
  ELSE IF StageFromIndex(i) \in eventFlags
       THEN LET c == GetShaderWithoutSideEffects(r.cache, p.shaders[i + 1].module,
                                                 p.shaders[i + 1].entryPoint)
            IN CleanShaders([cache |-> c,
                             replacementShaders |->
                               [r.replacementShaders EXCEPT ![i] = c.calls[Len(c.calls)].module]],
                            p, eventFlags, i + 1)
       ELSE CleanShaders(r, p, eventFlags, i + 1)

\* The loop of TestsFailedCallback::PreDraw from stage i on: the fragment shader
\* is asked for whatever the event's flags are.
RECURSIVE ReplaceFragmentShaders(_, _, _, _)
ReplaceFragmentShaders(r, p, eventShaderFlags, i) ==
  IF i >= numberOfStages
  THEN r
  ELSE IF p.shaders[i + 1].module = NoShader
       THEN ReplaceFragmentShaders(r, p, eventShaderFlags, i + 1)
       ELSE IF StageFromIndex(i) \in eventShaderFlags \/ StageFromIndex(i) = "Fragment"
            THEN LET c == GetShaderWithoutSideEffects(r.cache, p.shaders[i + 1].module,
                                                      p.shaders[i + 1].entryPoint)
                 IN ReplaceFragmentShaders(
                      [cache |-> c,
                       replacementShaders |->
                         [r.replacementShaders EXCEPT ![i] = c.calls[Len(c.calls)].module]],
                      p, eventShaderFlags, i + 1)
            ELSE ReplaceFragmentShaders(r, p, eventShaderFlags, i + 1)

\* VkShaderModule replacementShaders[5] = {};
NoReplacements == [i \in 0..(numberOfStages - 1) |-> VK_NULL_HANDLE]

\* The second loop of MakeAllPassIncrementStencilPipelineCI.
ReplaceStages(pStages, replacementShaders) ==
  [i \in DOMAIN pStages |->
     LET replacement == replacementShaders[StageIndex(pStages[i].stage)]
     IN IF replacement # VK_NULL_HANDLE
        THEN [pStages[i] EXCEPT !.module = ReplacementModule(replacement)]
        ELSE pStages[i]]

\* The loop over ci.pStages of TestsFailedCallback::CreatePipeline.
CreatePipelineStages(pStages, pipeCreateFlags, replacementShaders) ==
  [i \in DOMAIN pStages |->
     IF pStages[i].stage = "Fragment" /\ PipelineCreationFlags_FixedColorShader \in pipeCreateFlags
     THEN [pStages[i] EXCEPT !.module = FixedColShader, !.pName = "main"]
     ELSE IF replacementShaders[StageIndex(pStages[i].stage)] # VK_NULL_HANDLE
          THEN [pStages[i] EXCEPT
                  !.module = ReplacementModule(replacementShaders[StageIndex(pStages[i].stage)])]
          ELSE pStages[i]]

\* The pipelines whose shaders the callers clean: a vertex shader, and a fragment
\* shader or none.
ShaderPipelines ==
  {[shaders |-> <<[module |-> v, entryPoint |-> "main"],
                  [module |-> NoShader, entryPoint |-> "main"],
                  [module |-> NoShader, entryPoint |-> "main"],
                  [module |-> NoShader, entryPoint |-> "main"],
                  [module |-> f, entryPoint |-> e]>>] :
     v \in ShaderIds, f \in ShaderIds \cup {NoShader}, e \in EntryPoints}

\* The stages of p that have a shader.
BoundStages(p) == {StageFromIndex(i) : i \in {n \in 0..(numberOfStages - 1) :
                                                p.shaders[n + 1].module # NoShader}}

\* MakeAllPassIncrementStencilPipelineCI, as far as the shaders go.
MakeAllPassIncrementStencilPipelineCI ==
  \E p \in ShaderPipelines : \E eventFlags \in SUBSET BoundStages(p) :
    LET r == CleanShaders([cache |-> ShaderCache, replacementShaders |-> NoReplacements],
                          p, eventFlags, 0)
        pStages == PipelineStages(p, 0)
    IN /\ Len(stages) < MaxPipelines
       /\ CacheBecomes(r.cache)
       /\ stages' = Append(stages, [original |-> pStages,
                                    asked |-> Len(r.cache.calls) - Len(calls),
                                    replacementShaders |-> r.replacementShaders,
                                    pipeCreateFlags |-> {},
                                    pStages |-> ReplaceStages(pStages, r.replacementShaders)])
       /\ UNCHANGED <<histVars, gpuVars, strip, redrawPipes, sampling>>

\* TestsFailedCallback::PreDraw and CreatePipeline, as far as the shaders go.
TestsFailedShaders ==
  \E p \in ShaderPipelines : \E eventShaderFlags \in SUBSET BoundStages(p) :
    \E pipeCreateFlags \in SUBSET {PipelineCreationFlags_FixedColorShader} :
      LET r == ReplaceFragmentShaders([cache |-> ShaderCache,
                                       replacementShaders |-> NoReplacements],
                                      p, eventShaderFlags, 0)
          pStages == PipelineStages(p, 0)
      IN /\ Len(stages) < MaxPipelines
         /\ CacheBecomes(r.cache)
         /\ stages' = Append(stages,
                             [original |-> pStages,
                              asked |-> Len(r.cache.calls) - Len(calls),
                              replacementShaders |-> r.replacementShaders,
                              pipeCreateFlags |-> pipeCreateFlags,
                              pStages |-> CreatePipelineStages(pStages, pipeCreateFlags,
                                                               r.replacementShaders)])
         /\ UNCHANGED <<histVars, gpuVars, strip, redrawPipes, sampling>>

InitCache ==
  /\ InitHistory(<<>>)
  /\ targetFormat = ResourceFmt
  /\ depthOut = FALSE
  /\ InitCacheIdle

NextCache ==
  \/ CacheCall
  \/ MakeAllPassIncrementStencilPipelineCI
  \/ TestsFailedShaders

SpecCache == InitCache /\ [][NextCache]_vars

-----------------------------------------------------------------------------
(* PixelHistoryShaderCache::StripShaderSideEffects, round by round.        *)

FuncIds == 1..MaxFuncs

\* The last instruction of a function of the bounded modules, by the function's
\* id and the kind of module. Kind 0 has no writes: a store to a variable of the
\* function, a load, a copy to private memory. Kinds 1 and 2 write: a store or an
\* atomic store to a buffer, an image write or a copy to a storage buffer, an
\* atomic add or an atomic compare-exchange (which has two semantics words).
LastInstruction(funcId, kind) ==
  IF funcId = 1
  THEN (IF kind = 0 THEN OpStore("Store", "Function")
        ELSE IF kind = 1 THEN OpStore("Store", "StorageBuffer")
        ELSE OpStore("AtomicStore", "Uniform"))
  ELSE IF funcId = 2
       THEN (IF kind = 0 THEN Instruction("Load")
             ELSE IF kind = 1 THEN Instruction("ImageWrite")
             ELSE OpStore("CopyMemory", "StorageBuffer"))
       ELSE (IF kind = 0 THEN OpStore("CopyMemory", "Private")
             ELSE IF kind = 1
                  THEN OpAtomic("AtomicIAdd", <<"uint", "%sum", "%counter", "Device", "AcquireRelease",
                                                "%one">>)
                  ELSE OpAtomic("AtomicCompareExchange",
                                <<"int", "%was", "%lock", "Workgroup", "Acquire", "Relaxed", "%new",
                                  "%expected">>))

ModuleKinds == {0, 1, 2}

\* The bodies a function of the bounded modules can have: up to MaxFuncCalls calls,
\* then the last instruction.
FuncBodies(funcId, kind) ==
  {callInstrs \o <<LastInstruction(funcId, kind)>> :
     callInstrs \in UNION {[1..n -> {OpFunctionCall(f) : f \in FuncIds}] : n \in 0..MaxFuncCalls}}

InitStrip ==
  /\ InitHistory(<<>>)
  /\ targetFormat = ResourceFmt
  /\ depthOut = FALSE
  /\ InitCacheEmpty
  /\ \E kind \in ModuleKinds, entryId \in FuncIds :
       \E functions \in [FuncIds -> UNION {FuncBodies(f, kind) : f \in FuncIds}] :
         /\ \A f \in FuncIds : functions[f] \in FuncBodies(f, kind)
         /\ strip = StripStart(functions, entryId)

\* One round of the loop of StripShaderSideEffects.
StripRound ==
  /\ strip.queue # {}
  /\ strip' = StripFunction(strip)
  /\ UNCHANGED <<histVars, gpuVars, shaderReplacements, shaderModules, stripRuns, calls, stages,
                 redrawPipes, sampling>>

NextStrip == StripRound

\* The loop runs on while the queue holds a function.
SpecStrip == InitStrip /\ [][NextStrip]_vars /\ WF_vars(StripRound)

-----------------------------------------------------------------------------
(* Properties of the returned history (specification Spec).                *)

Returned == pc = "done"

\* The positions of the entries of event eid in the history.
EntriesOf(eid) == {h \in DOMAIN history : history[h].eventId = eid}

\* The draws of the primary command buffer whose fragments the capture pass counted.
CountedDraws ==
  {e \in DOMAIN fragments : e \in DOMAIN cbEventIndices /\ ~EventOf(events, e).secondary}

\* What the capture pass recorded for event eid (eventsInfo[GetEventIndex(eid)] as
\* the pass left it).
CapturedInfo(eid) ==
  EventInfoAt(CaptureReplay([indices |-> EmptyMap, buf |-> EmptyMap, copies |-> <<>>], events, fragments,
                            modEvents, depthOut, 1).buf,
              cbEventIndices[eid])

\* C1: the returned history is sorted by event id ascending and, among the entries
\* of one event, by fragment index ascending.
C1_HistorySorted ==
  Returned =>
    \A h \in 1..(Len(history) - 1) :
      \/ history[h].eventId < history[h + 1].eventId
      \/ /\ history[h].eventId = history[h + 1].eventId
         /\ history[h].fragIndex < history[h + 1].fragIndex

\* C2: for an event expanded into several entries, the pre-modification value of
\* each entry after the first equals the post-modification value of the entry before.
C2_FragmentsChained ==
  Returned =>
    \A h \in 1..(Len(history) - 1) :
      (history[h].eventId = history[h + 1].eventId /\ history[h + 1].fragIndex > 0)
        => history[h + 1].preMod = history[h].postMod

\* C3: for an event with at least one fragment, the post-modification value of its
\* last history entry equals the post-modification value the capture pass recorded
\* for the event, whatever the discard status of its fragments.
C3_LastPostModIsCaptured ==
  Returned =>
    \A e \in CountedDraws :
      (Len(fragments[e]) >= 1 /\ EntriesOf(e) # {})
        => history[Max(EntriesOf(e))].postMod = FillInValue(CapturedInfo(e).postmod, ZeroValue)

\* C4: a candidate event appears in the returned history if and only if it is a
\* clear or a direct write, or the candidate filter recorded a nonzero occlusion
\* result for it.
C4_MembershipByFilter ==
  (Returned /\ events # <<>> /\ targetFormat # UndefinedFormat) =>
    \A i \in DOMAIN events :
      EntriesOf(events[i].eventId) # {}
        <=> \/ events[i].usage = "Clear"
            \/ isDirectWrite(events[i].usage)
            \/ GetOcclusionResult(occlQueries, occlResults, events[i].eventId) > 0

\* C5: an event with N >= 1 fragments that the shader does not discard has exactly
\* N entries in the returned history, with fragment indices 0..N-1 in increasing order.
C5_OneEntryPerSurvivingFragment ==
  Returned =>
    \A e \in CountedDraws :
      LET n == NumSurviving(fragments[e])
      IN n >= 1 =>
           /\ Cardinality(EntriesOf(e)) = n
           /\ {history[h].fragIndex : h \in EntriesOf(e)} = 0..(n - 1)
           /\ \A g, h \in EntriesOf(e) : g < h => history[g].fragIndex < history[h].fragIndex

\* C9: a history entry whose fragment the fragment shader discarded has
\* shaderDiscarded set and a post-modification value equal to its own
\* pre-modification value, also when it is the first entry of the history or of its event.
C9_DiscardedEntryUnchanged ==
  Returned =>
    \A h \in DOMAIN history :
      LET e == history[h].eventId
          f == history[h].fragIndex
      IN (e \in CountedDraws /\ f < Len(fragments[e]) /\ fragments[e][f + 1].discard)
           => history[h].shaderDiscarded /\ history[h].postMod = history[h].preMod

-----------------------------------------------------------------------------
(* Properties of the diagnosis pass (specification SpecTests).             *)

\* The test each must-fail flag belongs to, and the failure flag of the history
\* entry that reports it.
MustFailFlags ==
  {TestMustFail_Culling, TestMustFail_Scissor, TestMustFail_SampleMask,
   TestMustFail_StencilTesting, TestMustFail_DepthTesting}

TestOfMustFail(flag) ==
  CASE flag = TestMustFail_Culling -> TestEnabled_Culling
    [] flag = TestMustFail_Scissor -> TestEnabled_Scissor
    [] flag = TestMustFail_SampleMask -> TestEnabled_SampleMask
    [] flag = TestMustFail_StencilTesting -> TestEnabled_StencilTesting
    [] flag = TestMustFail_DepthTesting -> TestEnabled_DepthTesting

FailureOfMustFail(flag) ==
  CASE flag = TestMustFail_Culling -> "backfaceCulled"
    [] flag = TestMustFail_Scissor -> "scissorClipped"
    [] flag = TestMustFail_SampleMask -> "sampleMasked"
    [] flag = TestMustFail_StencilTesting -> "stencilTestFailed"
    [] flag = TestMustFail_DepthTesting -> "depthTestFailed"

TestIndex(test) == CHOOSE i \in DOMAIN TestOrder : TestOrder[i] = test

\* C6: when a must-fail flag is set for an event, the diagnosis pass issues no
\* occlusion query for that test nor for any test after it in the sequence.
C6_MustFailStopsQueries ==
  \A e \in DOMAIN tfEventFlags :
    \A flag \in MustFailFlags \cap tfEventFlags[e] :
      \A t \in Tests :
        TestIndex(t) >= TestIndex(TestOfMustFail(flag)) => <<e, t>> \notin DOMAIN tfQueries

\* The replay has run for a draw whose depth test must fail and whose stencil test
\* got its query before the early return.
C6_Witness ==
  /\ pc = "testsFetch"
  /\ \E e \in DOMAIN tfEventFlags :
       /\ TestMustFail_DepthTesting \in tfEventFlags[e]
       /\ <<e, TestEnabled_StencilTesting>> \in DOMAIN tfQueries
       /\ <<e, TestEnabled_Culling>> \in DOMAIN tfQueries

\* C7: when the must-fail flag of culling, scissor, sample mask, stencil or depth is
\* set for a draw, the matching failure flag of its history entry is true and no
\* occlusion result was consulted for that test.
C7_MustFailSetsFailureFlag ==
  \A h \in DOMAIN history :
    history[h].eventId \in DOMAIN tfEventFlags =>
      \A flag \in MustFailFlags \cap tfEventFlags[history[h].eventId] :
        /\ history[h][FailureOfMustFail(flag)]
        /\ <<history[h].eventId, TestOfMustFail(flag)>> \notin tfConsulted

\* C8: for a draw that is not culled and whose pixel is outside every scissor
\* rectangle, the history entry has scissorClipped set and none of sampleMasked,
\* depthClipped, stencilTestFailed, depthTestFailed, shaderDiscarded, whatever the
\* rest of the pipeline state.
C8_ScissorClippedOnly ==
  \A h \in DOMAIN history :
    (/\ history[h].eventId \in DOMAIN tfEventFlags
     /\ TestMustFail_Scissor \in tfEventFlags[history[h].eventId]
     /\ ~history[h].backfaceCulled)
      => /\ history[h].scissorClipped
         /\ ~history[h].sampleMasked
         /\ ~history[h].depthClipped
         /\ ~history[h].stencilTestFailed
         /\ ~history[h].depthTestFailed
         /\ ~history[h].shaderDiscarded

-----------------------------------------------------------------------------
(* Properties of the shader cache (specification SpecCache).               *)

\* C10: after any sequence of calls, a later call of GetShaderWithoutSideEffects
\* with the same (shaderId, entryPoint) returns the handle the first one returned,
\* the null handle included, and neither the stripper nor vkCreateShaderModule runs
\* a second time for the key.
C10_CacheIdempotent ==
  /\ \A i, j \in DOMAIN calls :
       calls[i].key = calls[j].key => calls[i].module = calls[j].module
  /\ \A k \in DOMAIN stripRuns : stripRuns[k] <= 1
  /\ \A k \in DOMAIN shaderReplacements :
       Cardinality({m \in DOMAIN shaderModules : shaderModules[m] = k}) <= 1

\* Both kinds of key were asked for twice: one cached as the null handle, one as a
\* created module.
C10_Witness ==
  /\ \E i, j \in DOMAIN calls :
       i < j /\ calls[i].key = calls[j].key /\ calls[i].module = VK_NULL_HANDLE
             /\ calls[i].key \in DOMAIN stripRuns
  /\ \E i, j \in DOMAIN calls :
       i < j /\ calls[i].key = calls[j].key /\ calls[i].module # VK_NULL_HANDLE

-----------------------------------------------------------------------------
(* Properties of the Vulkan calls of PixelHistory (specification Spec).    *)

\* Whether the object the i-th call of the log created is destroyed later.
DestroyedLater(log, i) ==
  \E j \in (i + 1)..Len(log) : log[j].op = "Destroy" /\ log[j].obj = log[i].obj

\* C11: when PixelHistory has returned, every GPU object it created (query pools,
\* the pipelines of every pass, the diagnosis pass included, render passes,
\* framebuffers, images, views, the readback buffer and its memory) has been
\* destroyed.
C11_EveryObjectDestroyed ==
  Returned =>
    \A i \in DOMAIN gpuLog : gpuLog[i].op = "Create" => DestroyedLater(gpuLog, i)

\* Whether the i-th call of the log is a Vulkan call that returned an error.
FailedCall(log, i) ==
  log[i].op = "GetQueryPoolResults" /\ log[i].obj[4] # VK_SUCCESS

\* C12 (specification SpecFault): once a query-result call has failed, the operation
\* aborts: no replay pass is run after the failed call.
C12_FailureAborts ==
  \A i \in DOMAIN gpuLog :
    FailedCall(gpuLog, i) => \A j \in (i + 1)..Len(gpuLog) : gpuLog[j].op # "ReplayLog"

-----------------------------------------------------------------------------
(* Properties of the merge of the capture records (specification          *)
(* SpecSecondary).                                                         *)

\* Whether the capture pass left a record for the event of the entry.
HasRecord(mod) == mod.eventId \in DOMAIN cbEventIndices

\* The number of entries the capture record of an entry asks for.
EntriesAskedFor(mod) ==
  IF HasRecord(mod)
  THEN RDCMAX(1, EventInfoAt(dstBuffer, cbEventIndices[mod.eventId]).dsWithoutShaderDiscard)
  ELSE 1

RECURSIVE PositionAfter(_, _)
\* Where the h-th entry of hist is once the entries before it have the number of
\* entries their records ask for.
PositionAfter(hist, h) ==
  IF h = 1 THEN 1 ELSE PositionAfter(hist, h - 1) + EntriesAskedFor(hist[h - 1])

\* C13: an entry of the history whose event has no capture record (GetEventIndex
\* returns -1) is skipped by the merge loop: the entry keeps its zeroed pre- and
\* post-modification values, it is not expanded into fragments (the entry after it
\* is the one of the next event), and every later entry that has a record is still
\* filled from its record.
C13_MissingRecordSkipped ==
  [][pc = "expand" =>
       \A h \in DOMAIN history :
         ~HasRecord(history[h]) =>
           LET at == PositionAfter(history, h)
           IN /\ at \in DOMAIN history'
              /\ history'[at] = history[h]
              /\ history'[at].preMod = ZeroValue /\ history'[at].postMod = ZeroValue
              /\ history'[at].fragIndex = 0
              /\ h < Len(history) =>
                   /\ at + 1 \in DOMAIN history'
                   /\ history'[at + 1].eventId = history[h + 1].eventId
                   /\ history'[at + 1].fragIndex = 0
              /\ h = Len(history) => Len(history') = at
              /\ \A k \in (h + 1)..Len(history) :
                   HasRecord(history[k]) =>
                     LET ei == EventInfoAt(dstBuffer, cbEventIndices[history[k].eventId])
                         filled == history'[PositionAfter(history, k)]
                     IN /\ filled.eventId = history[k].eventId
                        /\ filled.preMod = FillInValue(ei.premod, ZeroValue)
                        /\ filled.postMod = FillInValue(ei.postmod, ZeroValue)
                        /\ (ei.dsWithoutShaderDiscard > 0 =>
                              eventsWithFrags'[filled.eventId] = ei.dsWithoutShaderDiscard)]_vars

\* The merge loop has run over a history in which an entry without capture record
\* is followed by one whose record asks for two entries or more.
C13_Witness ==
  /\ pc = "perFragment"
  /\ \E h \in DOMAIN history :
       /\ ~HasRecord(history[h])
       /\ history[h].preMod = ZeroValue
       /\ \E k \in (h + 1)..Len(history) :
            HasRecord(history[k]) /\ EntriesAskedFor(history[k]) >= 2

-----------------------------------------------------------------------------
(* Properties of the order of the replay passes (specification Spec).      *)

PassOrder == <<"occlusion", "capture", "testsFailed", "perFragment", "discarded">>

PassIndex(owner) == CHOOSE i \in DOMAIN PassOrder : PassOrder[i] = owner

\* The replay passes run so far, in the order they were started.
PassesRun(log) ==
  LET starts == SelectSeq(log, LAMBDA c : c.op = "ReplayLog")
  IN [i \in DOMAIN starts |-> starts[i].obj[2]]

Ran(owner) == owner \in Range(PassesRun(gpuLog))

\* The fragment counts the capture pass measures for an event: without and with the
\* shader's discard.  It measures the draws of the primary command buffer it keeps.
Measured(eid) ==
  eid \in DrawsOf(events, modEvents) \ SecondaryIds(events) /\ eid \in DOMAIN fragments

FragsWithout(eid) == IF Measured(eid) THEN Len(fragments[eid]) ELSE 0

FragsWith(eid) == IF Measured(eid) THEN NumSurviving(fragments[eid]) ELSE 0

EventIdsOf(evs) == {evs[i].eventId : i \in DOMAIN evs}

\* C14: the replay passes run in the fixed order filter, capture, diagnosis,
\* per-fragment, discarded, each at most once; by the time PixelHistory returns the
\* diagnosis pass has run exactly if a draw survived the filter, the per-fragment
\* pass exactly if some event has a fragment count above zero, and the discarded
\* pass only if the per-fragment pass ran and some event has fewer fragments with
\* shader discard than without.
C14_PassOrder ==
  LET run == PassesRun(gpuLog)
  IN /\ \A i \in 1..(Len(run) - 1) : PassIndex(run[i]) < PassIndex(run[i + 1])
     /\ (Returned /\ run # <<>>) =>
          /\ Ran("occlusion") /\ Ran("capture")
          /\ Ran("testsFailed") <=> Len(drawEvents) > 0
          /\ Ran("perFragment") <=> \E e \in EventIdsOf(events) : FragsWithout(e) > 0
          /\ Ran("discarded") =>
               /\ Ran("perFragment")
               /\ \E e \in EventIdsOf(events) : FragsWith(e) < FragsWithout(e)

\* Whether the c-th call of the log is the call op of the replay pass of owner.
PassCall(log, c, op, owner) ==
  log[c].op = op /\ log[c].obj[2] = owner /\ log[c].obj[4] = "pass"

\* Whether the pass of owner was replayed, submitted and flushed, in this order,
\* before the i-th call of the log.
FlushedBefore(log, owner, i) ==
  \E c \in 1..(i - 1) :
    /\ PassCall(log, c, "FlushQ", owner)
    /\ \E b \in 1..(c - 1) :
         /\ PassCall(log, b, "SubmitCmds", owner)
         /\ \E a \in 1..(b - 1) : PassCall(log, a, "ReplayLog", owner)

\* C15: the CPU reads no occlusion result and no readback content of a pass before
\* that pass's SubmitCmds and then FlushQ have completed, and no pass is started
\* before the pass before it has been flushed.  Stated of the calls each step adds
\* to the log.
C15_ReadAfterFlush ==
  [][\A i \in (Len(gpuLog) + 1)..Len(gpuLog') :
       /\ gpuLog'[i].op \in {"GetQueryPoolResults", "Read"} =>
            FlushedBefore(gpuLog', gpuLog'[i].obj[2], i)
       /\ gpuLog'[i].op = "ReplayLog" =>
            \A j \in 1..(i - 1) :
              gpuLog'[j].op = "ReplayLog" => FlushedBefore(gpuLog', gpuLog'[j].obj[2], i)]_vars

\* PixelHistory has returned after reading the occlusion results of the filter, the
\* diagnosis and the discarded pass and the readback content of the capture and the
\* per-fragment pass.
C15_Witness ==
  /\ Returned
  /\ \A owner \in {"occlusion", "testsFailed", "discarded"} :
       \E i \in DOMAIN gpuLog : gpuLog[i] = Step("GetQueryPoolResults", owner, VK_SUCCESS)
  /\ \A owner \in {"capture", "perFragment"} :
       \E i \in DOMAIN gpuLog : gpuLog[i] = ReadBack(owner)

-----------------------------------------------------------------------------
(* Properties of the readback buffer (specification Spec).                 *)

\* C16: each pass writes into a readback buffer of its own: the replay of the
\* per-fragment pass leaves every event record the capture pass wrote as it was.
C16_CaptureRecordsKept ==
  [][pc = "perFragment" =>
       \A eid \in DOMAIN cbEventIndices :
         BufferRecord(dstBuffer', cbEventIndices[eid])
           = BufferRecord(dstBuffer, cbEventIndices[eid])]_vars

\* The calls of the log that map or unmap the readback memory, start a replay pass
\* or free the readback memory, in call order.
MappingCalls(log) ==
  SelectSeq(log, LAMBDA c : \/ c.op \in {"MapMemory", "UnmapMemory", "ReplayLog"}
                            \/ c = Call("Destroy", Obj("Memory", "resources", 0, "bufferMemory")))

\* C17: every mapping of the readback memory is unmapped before the next replay
\* pass starts and before the memory is freed, and the memory is not mapped a second
\* time without an unmap in between: the call that follows a vkMapMemory among the
\* mapping calls is its vkUnmapMemory.
C17_MappedOnlyBetweenPasses ==
  LET m == MappingCalls(gpuLog)
  IN \A i \in DOMAIN m :
       m[i].op = "MapMemory" => (i < Len(m) => m[i + 1].op = "UnmapMemory")

-----------------------------------------------------------------------------
(* Properties of the pipelines and queries of the diagnosis pass           *)
(* (specification SpecTests).                                              *)

FixedFunctionTests ==
  {TestEnabled_Culling, TestEnabled_DepthBounds, TestEnabled_StencilTesting,
   TestEnabled_DepthTesting}

\* Whether the state of a test in pipe is the one of the application's pipeline.
KeepsSetting(test, pipe, app) ==
  CASE test = TestEnabled_Culling -> pipe.cullMode = app.cullMode
    [] test = TestEnabled_DepthBounds -> pipe.depthBoundsEnable = app.depthBoundsEnable
    [] test = TestEnabled_StencilTesting ->
         /\ pipe.stencilTestEnable = app.stencilTestEnable
         /\ pipe.frontCompareOp = app.frontCompareOp
         /\ pipe.backCompareOp = app.backCompareOp
    [] test = TestEnabled_DepthTesting ->
         /\ pipe.depthTestEnable = app.depthTestEnable
         /\ pipe.depthCompareOp = app.depthCompareOp

\* Whether pipe has a test disabled or passing for every fragment.
DisabledOrPasses(test, pipe) ==
  CASE test = TestEnabled_Culling -> pipe.cullMode = "NONE"
    [] test = TestEnabled_DepthBounds -> ~pipe.depthBoundsEnable
    [] test = TestEnabled_StencilTesting ->
         \/ ~pipe.stencilTestEnable
         \/ pipe.frontCompareOp = "ALWAYS" /\ pipe.backCompareOp = "ALWAYS"
    [] test = TestEnabled_DepthTesting ->
         ~pipe.depthTestEnable \/ pipe.depthCompareOp = "ALWAYS"

\* The pipeline ReplayDraw bound for the redraw k = <<event id, test>>.
BoundPipeline(k) == tfPipeCache[tfBound[k].pipeline]

\* C18: the redraw of the diagnosis pass for test T uses a pipeline in which T keeps
\* the application's setting and every other fixed-function test (culling, depth
\* bounds, stencil, depth) is disabled or forced to pass.
C18_OtherTestsDisabled ==
  \A k \in DOMAIN tfBound :
    LET pipe == BoundPipeline(k)
        app == EventOf(events, k[1]).pipe
    IN /\ k[2] \in FixedFunctionTests => KeepsSetting(k[2], pipe, app)
       /\ \A other \in FixedFunctionTests \ {k[2]} : DisabledOrPasses(other, pipe)

\* The tests that are switched off in the redraw for a test.
SwitchedOffFor(test) ==
  CASE test = TestEnabled_DepthBounds -> {TestEnabled_StencilTesting, TestEnabled_DepthTesting}
    [] test = TestEnabled_StencilTesting -> {TestEnabled_DepthTesting}
    [] test = TestEnabled_DepthTesting -> {TestEnabled_StencilTesting}
    [] OTHER -> {TestEnabled_DepthBounds, TestEnabled_StencilTesting, TestEnabled_DepthTesting}

\* Whether the enable switch of a test is off in pipe.
SwitchedOff(test, pipe) ==
  CASE test = TestEnabled_DepthBounds -> ~pipe.depthBoundsEnable
    [] test = TestEnabled_StencilTesting -> ~pipe.stencilTestEnable
    [] test = TestEnabled_DepthTesting -> ~pipe.depthTestEnable

\* C18, amended: in the redraw for test T culling always keeps the application's
\* setting, and of depth bounds, stencil and depth the redraw switches off: all
\* three for culling, scissor, sample mask and shader discard; stencil and depth for
\* depth bounds; depth for stencil; stencil for depth.  The others keep the
\* application's setting, T itself included.
C18_LaterTestsDisabled ==
  \A k \in DOMAIN tfBound :
    LET pipe == BoundPipeline(k)
        app == EventOf(events, k[1]).pipe
    IN \A test \in FixedFunctionTests :
         IF test \in SwitchedOffFor(k[2])
         THEN SwitchedOff(test, pipe)
         ELSE KeepsSetting(test, pipe, app)

\* The diagnosis pass has redrawn, for the depth test and for the culling test, a
\* draw whose pipeline culls back faces and has depth bounds, stencil and depth tests
\* enabled.
C18_Witness ==
  /\ <<1, TestEnabled_DepthTesting>> \in DOMAIN tfBound
  /\ <<1, TestEnabled_Culling>> \in DOMAIN tfBound
  /\ LET app == EventOf(events, 1).pipe
     IN /\ app.cullMode = "BACK"
        /\ app.depthBoundsEnable /\ app.stencilTestEnable /\ app.depthTestEnable
        /\ ~BoundPipeline(<<1, TestEnabled_Culling>>).depthTestEnable
        /\ BoundPipeline(<<1, TestEnabled_DepthTesting>>).depthBoundsEnable

\* Whether the application's pipeline applies a test to the draw in a way that can
\* reject a fragment.  The scissor test and the sample mask always apply.
Active(test, app) ==
  CASE test = TestEnabled_Culling -> app.cullMode # "NONE"
    [] test = TestEnabled_Scissor -> TRUE
    [] test = TestEnabled_SampleMask -> TRUE
    [] test = TestEnabled_DepthBounds -> app.depthBoundsEnable
    [] test = TestEnabled_StencilTesting ->
         app.stencilTestEnable /\ (app.frontCompareOp # "ALWAYS" \/ app.backCompareOp # "ALWAYS")
    [] test = TestEnabled_DepthTesting -> app.depthTestEnable /\ app.depthCompareOp # "ALWAYS"

\* Whether a test's outcome is open: it is neither must-fail nor must-pass and no
\* test before it in the order is must-fail.
Undecided(test, eventFlags) ==
  /\ \A flag \in MustFailFlags \cap eventFlags : TestIndex(TestOfMustFail(flag)) > TestIndex(test)
  /\ test = TestEnabled_Scissor => TestMustPass_Scissor \notin eventFlags

\* The number of queries the diagnosis pass began for <<event id, test>>.
QueriesIssued(eid, test) ==
  Len(SelectSeq(gpuLog, LAMBDA c : c = Call("BeginQuery", Obj("Query", "testsFailed", eid, test))))

\* C19: for every diagnosed event and every test among culling, scissor, sample mask,
\* depth bounds, stencil and depth that is active, neither must-fail nor must-pass,
\* and not ordered after a must-fail test, exactly one occlusion query keyed
\* (event, test) is issued.
C19_OneQueryPerOpenTest ==
  pc # "testsFailed" =>
    \A i \in DOMAIN drawEvents :
      LET eid == drawEvents[i]
          app == EventOf(events, eid).pipe
      IN \A test \in Tests \ {TestEnabled_FragmentDiscard} :
           (Active(test, app) /\ Undecided(test, CalculateEventFlags(app))) =>
              /\ <<eid, test>> \in DOMAIN tfQueries
              /\ QueriesIssued(eid, test) = 1

\* The tests that follow the fragment shader when the fragment tests are late.
LateTests == {TestEnabled_DepthBounds, TestEnabled_StencilTesting, TestEnabled_DepthTesting}

\* Whether UpdateTestsFailed read the query of a test for the event.
Consulted(eid, test) == <<eid, test>> \in tfConsulted

\* Whether the flags leave the outcome of a late test to its query.
OpenLateTest(test, eventFlags) ==
  CASE test = TestEnabled_DepthBounds -> test \in eventFlags
    [] test = TestEnabled_StencilTesting ->
         OnlyFlag(eventFlags, test, {TestMustFail_StencilTesting})
    [] test = TestEnabled_DepthTesting ->
         OnlyFlag(eventFlags, test, {TestMustFail_DepthTesting})

\* The failure flag of a late test in a modification.
LateTestFailed(test, mod) ==
  CASE test = TestEnabled_DepthBounds -> mod.depthClipped
    [] test = TestEnabled_StencilTesting -> mod.stencilTestFailed
    [] test = TestEnabled_DepthTesting -> mod.depthTestFailed

-----------------------------------------------------------------------------
(* The scissors of the diagnosis pass (specifications SpecScissor and      *)
(* SpecScissorBlock).                                                      *)

\* Whether the target pixel lies inside a rectangle.
PixelInside(r) == r.x <= PixelX /\ PixelX < r.x + r.w /\ r.y <= PixelY /\ PixelY < r.y + r.h

\* Whether the target pixel lies inside a viewport's rectangle; a negative height
\* means the rows [view.y + height, view.y).
PixelInView(view) ==
  /\ view.x <= PixelX /\ PixelX < view.x + view.width
  /\ IF view.height < 0
     THEN view.y + view.height <= PixelY /\ PixelY < view.y
     ELSE view.y <= PixelY /\ PixelY < view.y + view.height

ThePixel == Rect(PixelX, PixelY, 1, 1)

ZeroArea(r) == r.w = 0 \/ r.h = 0

\* The scissors the GPU applies in the redraw k = <<event id, test>>: the render
\* state's for a pipeline with dynamic scissors, the bound pipeline's otherwise.
EffectiveScissors(k) ==
  IF EventOf(events, k[1]).pipe.dynamicScissor THEN tfBound[k].scissors
  ELSE BoundPipeline(k).scissors

C22_ScissorFlags ==
  \A eid \in DOMAIN tfEventFlags :
    LET scissors == EventOf(events, eid).pipe.scissors
        eventFlags == tfEventFlags[eid]
    IN /\ TestMustFail_Scissor \in eventFlags
            <=> \A i \in DOMAIN scissors : ~PixelInside(scissors[i])
       /\ TestMustPass_Scissor \in eventFlags
            <=> \A i \in DOMAIN scissors : PixelInside(scissors[i])
       /\ ~(TestMustFail_Scissor \in eventFlags /\ TestMustPass_Scissor \in eventFlags)

\* C23: ScissorToPixel yields the 1x1 scissor at the target pixel exactly when the
\* pixel lies inside the viewport's rectangle (rows [view.y + height, view.y) for a
\* negative height) and the zero-area scissor with offset (0,0) for every other
\* viewport: these are the scissors of every redraw other than the scissor test's.
C23_ScissorToPixel ==
  \A k \in DOMAIN tfBound :
    k[2] # TestEnabled_Scissor =>
      LET app == EventOf(events, k[1]).pipe
      IN \A i \in DOMAIN app.views :
           EffectiveScissors(k)[i] =
             IF PixelInView(app.views[i]) THEN ThePixel ELSE Rect(0, 0, 0, 0)

\* A redraw with a viewport of negative height that contains the pixel and one with
\* a viewport that does not contain it.
C23_Witness ==
  \E k \in DOMAIN tfBound :
    /\ k[2] # TestEnabled_Scissor
    /\ LET app == EventOf(events, k[1]).pipe
       IN /\ Len(app.views) = 2
          /\ app.views[2].height < 0
          /\ PixelInView(app.views[2])
          /\ EffectiveScissors(k)[2] = ThePixel
          /\ EffectiveScissors(k)[1] = ThePixel

\* C22, amended: the must-fail flag is set exactly when the pixel lies outside every
\* scissor rectangle and the must-pass flag exactly when it lies inside all of
\* them, for every number of rectangles; both flags are set together exactly when
\* there is no scissor rectangle.
C22_ScissorFlagsBothIffNone ==
  \A eid \in DOMAIN tfEventFlags :
    LET scissors == EventOf(events, eid).pipe.scissors
        eventFlags == tfEventFlags[eid]
    IN /\ TestMustFail_Scissor \in eventFlags
            <=> \A i \in DOMAIN scissors : ~PixelInside(scissors[i])
       /\ TestMustPass_Scissor \in eventFlags
            <=> \A i \in DOMAIN scissors : PixelInside(scissors[i])
       /\ (TestMustFail_Scissor \in eventFlags /\ TestMustPass_Scissor \in eventFlags)
            <=> scissors = <<>>

\* The flags of a draw with one scissor that ends just before the pixel (must-fail)
\* have been computed.
C22_Witness ==
  \E eid \in DOMAIN tfEventFlags :
    /\ EventOf(events, eid).pipe.scissors = <<Rect(0, 0, 1, 1)>>
    /\ TestMustFail_Scissor \in tfEventFlags[eid]
    /\ TestMustPass_Scissor \notin tfEventFlags[eid]

-----------------------------------------------------------------------------
(* The capture pass on clears and direct writes (specification Spec).      *)

\* The candidates whose usage is a clear or a direct write.
UnconditionalWrites ==
  {events[i].eventId : i \in {j \in DOMAIN events :
                                events[j].usage = "Clear" \/ isDirectWrite(events[j].usage)}}

\* Whether the capture pass built the stencil-counting pipelines for an event.
CaptureRedraw(log, eid) ==
  \E c \in DOMAIN log :
    /\ log[c].op = "Create"
    /\ log[c].obj[1] = "Pipeline"
    /\ log[c].obj[2] = "capture"
    /\ log[c].obj[3] = eid

\* C24: the capture pass issues no stencil-counting redraw for an event whose usage
\* is a clear or a direct write, be it a draw or not, and leaves both fragment
\* counts of its record 0; the event yields exactly one entry of the returned
\* history.
C24_UnconditionalWritesBypassRedraw ==
  [][/\ pc = "capture" =>
          \A eid \in UnconditionalWrites :
            /\ ~CaptureRedraw(gpuLog', eid)
            /\ eid \in DOMAIN cbEventIndices' =>
                 LET ei == EventInfoAt(dstBuffer', cbEventIndices'[eid])
                 IN ei.dsWithoutShaderDiscard = 0 /\ ei.dsWithShaderDiscard = 0
     /\ (pc # "done" /\ pc' = "done" /\ events # <<>> /\ targetFormat # UndefinedFormat) =>
          \A eid \in UnconditionalWrites :
            Cardinality({h \in DOMAIN history' : history'[h].eventId = eid}) = 1]_vars

-----------------------------------------------------------------------------
(* The records of the capture pass (specifications Spec and SpecSecondary). *)

\* The CopyPixel calls the capture pass made on the frame.
CaptureCopies ==
  CaptureReplay([indices |-> EmptyMap, buf |-> EmptyMap, copies |-> <<>>], events, fragments,
                modEvents, depthOut, 1).copies

\* C25: in the capture pass every captured event has a record index distinct from
\* every other event's, the pre- and post-modification values of one event are
\* written into the same record, and no record is written on behalf of two
\* different events.
C25_OneRecordPerEvent ==
  cbEventIndices # EmptyMap =>
    LET copies == CaptureCopies
    IN /\ \A a, b \in DOMAIN cbEventIndices :
            a # b => cbEventIndices[a] # cbEventIndices[b]
       /\ \A i, j \in DOMAIN copies :
            copies[i].eventId = copies[j].eventId => copies[i].record = copies[j].record
       /\ \A i, j \in DOMAIN copies :
            copies[i].record = copies[j].record => copies[i].eventId = copies[j].eventId

-----------------------------------------------------------------------------
(* The per-fragment pass (specification Spec).                             *)

\* C26: the per-fragment pass processes an event only if its fragment count without
\* shader discard is > 0: the count N it sees for an event is that count, N is at
\* least 1, and the unsigned bound N - 1 of its post-modification loop does not
\* wrap around.
C26_FragmentCountPositive ==
  /\ \A eid \in DOMAIN eventsWithFrags :
       LET N == eventsWithFrags[eid]
       IN /\ N = FragsWithout(eid)
          /\ N >= 1
          /\ UInt32(N - 1) = N - 1
  /\ DOMAIN pfEventOffsets \subseteq DOMAIN eventsWithFrags

\* The per-fragment pass has processed a draw with one fragment, whose
\* post-modification loop has the bound 0, next to a candidate it did not process.
C26_Witness ==
  /\ pc = "collect"
  /\ \E eid \in DOMAIN pfEventOffsets : eventsWithFrags[eid] = 1
  /\ \E i \in DOMAIN history : history[i].eventId \notin DOMAIN pfEventOffsets

\* The number of the records of the events the per-fragment pass processed before
\* event eid: it replays the frame in event order.
RECURSIVE FragmentsBefore(_, _)
FragmentsBefore(eid, ids) ==
  IF ids = {} THEN 0
  ELSE LET e == CHOOSE x \in ids : TRUE
       IN (IF e < eid THEN eventsWithFrags[e] ELSE 0) + FragmentsBefore(eid, ids \ {e})

\* Whether a record index lies in the range of the records of an event.
InOwnRange(eid, index) ==
  /\ eid \in DOMAIN pfEventOffsets
  /\ index >= pfEventOffsets[eid]
  /\ index < pfEventOffsets[eid] + eventsWithFrags[eid]

\* The record index the loop that reads the primitive ids back uses for history[h].
CollectIndex(h) == GetEventOffset(pfEventOffsets, history[h].eventId) + history[h].fragIndex

RECURSIVE FillIndices(_, _)
\* The pairs <<position in the history, record index>> of the reads of the last
\* loop, from 0-based index h on with the given discardOffset.
FillIndices(h, discardOffset) ==
  IF h >= Len(history) THEN {}
  ELSE
    LET eid == history[h + 1].eventId
        reset == IF h > 0 /\ eid # history[h].eventId THEN 0 ELSE discardOffset
    IN IF eid \notin DOMAIN eventsWithFrags THEN FillIndices(h + 1, reset)
       ELSE IF history[h + 1].shaderDiscarded THEN FillIndices(h + 1, reset + 1)
       ELSE {<<h + 1, GetEventOffset(pfEventOffsets, eid) + history[h + 1].fragIndex - reset>>}
            \cup FillIndices(h + 1, reset)

\* C27: the record offset the per-fragment pass assigns to an event is the sum of
\* the fragment counts of the events processed before it, so the ranges
\* [offset(e), offset(e) + N(e)) of distinct events are contiguous and pairwise
\* disjoint, and the merge step reads the record of a fragment only inside the range
\* of the fragment's event, both when it reads the primitive ids back and when it
\* reads at offset(e) + fragIndex - discardOffset.
C27_FragmentRecordsInRange ==
  /\ \A eid \in DOMAIN pfEventOffsets :
       /\ eid \in DOMAIN eventsWithFrags
       /\ pfEventOffsets[eid] = FragmentsBefore(eid, DOMAIN pfEventOffsets)
  /\ pc = "collect" =>
       \A h \in DOMAIN history :
         history[h].eventId \in DOMAIN eventsWithFrags =>
           InOwnRange(history[h].eventId, CollectIndex(h))
  /\ pc = "fill" =>
       \A r \in FillIndices(0, 0) : InOwnRange(history[r[1]].eventId, r[2])

-----------------------------------------------------------------------------
(* The discarded-fragment pass (specification Spec).                       *)

\* For each query index, the pairs the pass began a query for.
QueriesBegun ==
  DiscardedReplay([indices |-> EmptyMap, begun |-> EmptyMap], events, discardedPrims,
                  Max(DOMAIN eventsWithFrags), 1).begun

\* The number of queries begun for a pair.
QueriesFor(begun, key) ==
  Cardinality({<<q, i>> \in (DOMAIN begun) \X (1..MaxFrags) :
                 i \in DOMAIN begun[q] /\ begun[q][i] = key})

\* C28: the discarded-fragment pass redraws primitives only for events whose
\* fragment count with shader discard is lower than the count without it, issues
\* one occlusion query per flagged (event, primitive id), and a history entry of
\* such an event has shaderDiscarded = true exactly when the query for its (event,
\* primitive id) returned zero.
C28_DiscardedByQuery ==
  (pc = "fill" /\ dcIndices # EmptyMap) =>
    /\ \A eid \in DOMAIN discardedPrims : FragsWith(eid) < FragsWithout(eid)
    /\ LET begun == QueriesBegun
       IN /\ \A q \in DOMAIN begun : Len(begun[q]) = 1
          /\ \A eid \in DOMAIN discardedPrims :
               \A p \in Range(discardedPrims[eid]) : QueriesFor(begun, <<eid, p>>) = 1
    /\ \A h \in DOMAIN history :
         history[h].eventId \in DOMAIN discardedPrims =>
           LET key == <<history[h].eventId, history[h].primitiveID>>
           IN /\ key \in DOMAIN dcIndices
              /\ dcIndices[key] \in DOMAIN dcResults
              /\ history[h].shaderDiscarded <=> dcResults[dcIndices[key]] = 0

-----------------------------------------------------------------------------
(* Properties of the side-effect stripper (specification SpecStrip).       *)

\* The functions the body of f calls.
Callees(functions, f) ==
  {functions[f][n].function : n \in {i \in DOMAIN functions[f] :
                                       functions[f][i].op = "FunctionCall"}}

\* The functions reachable from those of S through call instructions.
RECURSIVE ReachableFrom(_, _)
ReachableFrom(functions, S) ==
  LET T == S \cup UNION {Callees(functions, f) : f \in S}
  IN IF T = S THEN S ELSE ReachableFrom(functions, T)

\* C30: StripShaderSideEffects terminates for every call graph, recursive and
\* cyclic ones included; it processes every function reachable from the entry
\* point through call instructions exactly once and no unreachable function.
C30_StripTerminates ==
  /\ <>(strip.queue = {})
  /\ [](/\ \A i, j \in DOMAIN strip.order : strip.order[i] = strip.order[j] => i = j
        /\ Range(strip.order) \subseteq ReachableFrom(strip.functions, {strip.entryId})
        /\ strip.queue = {} =>
             Range(strip.order) = ReachableFrom(strip.functions, {strip.entryId}))

\* The stripper is done with a module in which the entry point is called back by a
\* function it calls, a processed function calls itself, and one function is not
\* reachable.
C30_Witness ==
  /\ strip.queue = {}
  /\ Len(strip.order) = MaxFuncs - 1
  /\ \E f \in Range(strip.order) : f \in Callees(strip.functions, f)
  /\ \E f \in Range(strip.order) \ {strip.entryId} :
       /\ f \in Callees(strip.functions, strip.entryId)
       /\ strip.entryId \in Callees(strip.functions, f)

-----------------------------------------------------------------------------
(* Properties of the shader replacement (specification SpecCache).         *)

\* Whether the stripper takes the instruction out or puts another in its place.
WritesResource(instr) ==
  \/ instr.op \in StoreOps /\ instr.storageClass \in {"Uniform", "StorageBuffer"}
  \/ instr.op = "ImageWrite"
  \/ instr.op \in AtomicOps

\* Whether the module has the entry point and a function reachable from it holds
\* an instruction the stripper removes or replaces.
HasSideEffects(shaderKey) ==
  \E e \in Range(Entries(shaderKey[1])) :
    /\ e.name = shaderKey[2]
    /\ \E f \in ReachableFrom(ShaderFunctions(shaderKey[1]), {e.id}) :
         \E i \in DOMAIN ShaderFunctions(shaderKey[1])[f] :
           WritesResource(ShaderFunctions(shaderKey[1])[f][i])

\* Every call that returned a module returned one built for a key whose entry
\* point has something to strip.
NonNullOnlyIfStripped ==
  \A i \in DOMAIN calls :
    calls[i].module # VK_NULL_HANDLE =>
      /\ HasSideEffects(calls[i].key)
      /\ calls[i].module \in DOMAIN shaderModules
      /\ shaderModules[calls[i].module] = calls[i].key

\* The stages of the create info s for which the caller holds the null handle.
NullStages(s) ==
  {i \in DOMAIN s.pStages : s.replacementShaders[StageIndex(s.pStages[i].stage)] = VK_NULL_HANDLE}

-----------------------------------------------------------------------------
(* What the stripper leaves in the module (specification SpecStrip).       *)

\* The body without the nops editor.Remove left behind.
WithoutNops(body) == SelectSeq(body, LAMBDA instr : instr.op # "Nop")

\* The atomic read-modify-write instructions of SPIR-V 1.0 on integers.
AtomicReadModifyWrite ==
  {"AtomicExchange", "AtomicCompareExchange", "AtomicCompareExchangeWeak", "AtomicIIncrement",
   "AtomicIDecrement", "AtomicIAdd", "AtomicISub", "AtomicSMin", "AtomicUMin", "AtomicSMax",
   "AtomicUMax", "AtomicAnd", "AtomicOr", "AtomicXor"}

\* A store, atomic store or memory copy to a Uniform or StorageBuffer pointer.
WritesBuffer(instr) ==
  /\ instr.op \in {"Store", "AtomicStore", "CopyMemory"}
  /\ instr.storageClass \in {"Uniform", "StorageBuffer"}

\* What the claim has in the place of an instruction of the module: nothing for a
\* write, an atomic load of the same five operands for an atomic read-modify-write,
\* the instruction itself otherwise.
RECURSIVE Stripped(_)
Stripped(body) ==
  IF body = <<>>
  THEN <<>>
  ELSE LET instr == Head(body)
       IN (IF WritesBuffer(instr) \/ instr.op = "ImageWrite"
           THEN <<>>
           ELSE IF instr.op \in AtomicReadModifyWrite
                THEN << [op |-> "AtomicLoad", function |-> 0, storageClass |-> "None",
                         words |-> SubSeq(instr.words, 1, 5)] >>
                ELSE <<instr>>)
          \o Stripped(Tail(body))

\* C31: after StripShaderSideEffects no function reachable from the entry point
\* holds a store, atomic store or memory copy to a Uniform or StorageBuffer
\* pointer, an image write or an atomic read-modify-write; each atomic
\* read-modify-write is replaced at its position by an atomic load with the same
\* result type, result id, pointer, scope and semantics; every other instruction
\* is unchanged.
C31_StrippedBodies ==
  (strip.queue = {} /\ strip.entryId # 0) =>
    \A f \in ReachableFrom(strip.spirv, {strip.entryId}) :
      /\ \A i \in DOMAIN strip.functions[f] :
           LET instr == strip.functions[f][i]
           IN ~(WritesBuffer(instr) \/ instr.op = "ImageWrite"
                                    \/ instr.op \in AtomicReadModifyWrite)
      /\ WithoutNops(strip.functions[f]) = Stripped(strip.spirv[f])

\* The stripper is done with a module of each writing kind in which all functions
\* are reachable: a buffer store, an image write and an atomic add (or an atomic
\* store, a buffer copy and a compare-exchange) were in it.
C31_Witness ==
  /\ strip.queue = {}
  /\ strip.entryId # 0
  /\ Len(strip.order) = MaxFuncs
  /\ strip.modified
  /\ \E f \in DOMAIN strip.spirv : \E i \in DOMAIN strip.spirv[f] :
       strip.spirv[f][i].op = "AtomicCompareExchange"
  /\ \E f \in DOMAIN strip.functions : \E i \in DOMAIN strip.functions[f] :
       /\ strip.functions[f][i].op = "AtomicLoad"
       /\ strip.functions[f][i].words = <<"int", "%was", "%lock", "Workgroup", "Acquire">>

-----------------------------------------------------------------------------
(* The occlusion results the merge step reads (specification SpecTests).   *)

\* C32: whenever UpdateTestsFailed reads the occlusion result of a pair (event,
\* test), the diagnosis pass issued an occlusion query for exactly that pair,
\* whatever the test-enabled and must-fail flags of the event are.
C32_ConsultedWasQueried ==
  \A k \in tfConsulted : k \in DOMAIN tfQueries

-----------------------------------------------------------------------------
(* The size of the readback buffer and the offsets the per-fragment pass   *)
(* writes at (specification SpecBuffer).                                   *)

\* struct PixelHistoryValue: color[32], depth, stencil, padding[3]
sizeofPixelHistoryValue == 32 + 4 + 1 + 3

\* struct EventInfo: premod, postmod, dsWithoutShaderDiscard[8], dsWithShaderDiscard[8]
sizeofEventInfo == 2 * sizeofPixelHistoryValue + 8 + 8

\* struct PerFragmentInfo: primitiveID, padding[3], shaderOut, postMod
sizeofPerFragmentInfo == 4 + 3 * 4 + 2 * sizeofPixelHistoryValue

\* AlignUp(x, a): the least multiple of a that is not below x.
AlignUp(x, a) == ((x + a - 1) \div a) * a

BufferAlignment == 4096

\* bufferInfo.size = AlignUp((uint32_t)(numEvents * sizeof(EventInfo)), 4096U)
BufferSize(numEvents) == AlignUp(numEvents * sizeofEventInfo, BufferAlignment)

\* uint32_t storeOffset = (fragsProcessed + f) * sizeof(PerFragmentInfo)
StoreOffset(fragsProcessed, f) == (fragsProcessed + f) * sizeofPerFragmentInfo

\* The greatest fragment count the capture pass can record: dsWithoutShaderDiscard[0]
\* is a uint8_t.
MaxStencilCount == 255

\* Fragment counts of an event: one, the greatest number of records that fit into
\* 4096 bytes, two more, and the greatest count.
FragmentCounts == {1, 42, 44, MaxStencilCount}

\* fragsProcessed after the events that have an offset.
FragsProcessed(offsets, frags) ==
  IF offsets = EmptyMap
  THEN 0
  ELSE offsets[Max(DOMAIN offsets)] + frags[Max(DOMAIN offsets)]

\* The per-fragment pass is about to run on a frame of up to MaxBufferEvents draws;
\* of the frame only the fragment count of each draw is kept.
InitBuffer ==
  \E n \in 1..MaxBufferEvents : \E frags \in [1..n -> FragmentCounts] :
    /\ pc = "perFragment"
    /\ events = [i \in 1..n |-> PrimaryDraw(i)]
    /\ targetFormat = ResourceFmt
    /\ depthOut = FALSE
    /\ fragments = EmptyMap
    /\ occlQueries = OcclusionPreDraws(EmptyMap, events, 1)
    /\ occlResults = [q \in 0..(n - 1) |-> frags[q + 1]]
    /\ modEvents = [i \in 1..n |-> i]
    /\ drawEvents = [i \in 1..n |-> i]
    /\ cbEventIndices = [i \in 1..n |-> i - 1]
    /\ dstBuffer = EmptyMap
    /\ tfEventFlags = EmptyMap
    /\ tfQueries = EmptyMap
    /\ tfResults = <<>>
    /\ tfConsulted = {}
    /\ history = <<>>
    /\ eventsWithFrags = frags
    /\ pfEventOffsets = EmptyMap
    /\ discardedPrims = EmptyMap
    /\ dcIndices = EmptyMap
    /\ dcResults = <<>>
    /\ gpuLog = <<>>
    /\ drawcallCB = CallbacksAfterCapture
    /\ tfPipeCache = EmptyMap
    /\ tfBound = EmptyMap
    /\ InitCacheIdle

\* VulkanPixelHistoryPerFragmentCallback::PreDraw for the next event with
\* fragments, as far as the offsets go: m_EventIndices[eid] = fragsProcessed;
\* fragsProcessed += numFragmentsInEvent.
PerFragmentOffsets ==
  /\ DOMAIN eventsWithFrags \ DOMAIN pfEventOffsets # {}
  /\ LET eid == Min(DOMAIN eventsWithFrags \ DOMAIN pfEventOffsets)
     IN pfEventOffsets' = MapPut(pfEventOffsets, eid,
                                 FragsProcessed(pfEventOffsets, eventsWithFrags))
  /\ FrameUnchanged
  /\ UNCHANGED <<pc, gpuLog, drawcallCB, tfPipeCache, tfBound, dstBuffer, tfEventFlags, tfQueries, tfResults,
                 tfConsulted, history, eventsWithFrags, discardedPrims, dcIndices, dcResults>>

NextBuffer == PerFragmentOffsets

SpecBuffer == InitBuffer /\ [][NextBuffer]_vars

\* C33: every per-fragment record the per-fragment pass writes lies inside the
\* readback buffer: for every set of events and fragment counts up to 255, the
\* records of all fragments end at or before the buffer size
\* AlignUp(numEvents * sizeof(EventInfo), 4096).
C33_PerFragmentRecordsInBuffer ==
  \A eid \in DOMAIN pfEventOffsets : \A f \in 0..(eventsWithFrags[eid] - 1) :
    StoreOffset(pfEventOffsets[eid], f) + sizeofPerFragmentInfo <= BufferSize(Len(events))

-----------------------------------------------------------------------------
(* The occlusion queries of the diagnosis pass and its pool               *)
(* (specification SpecTests).                                              *)

\* CreateOcclusionPool(m_pDriver, (uint32_t)drawEvents.size() * 6, &tfOcclusionPool)
QueriesPerDraw == 6

TestsFailedPoolSize(draws) == Len(draws) * QueriesPerDraw

\* The queries the diagnosis pass issued for the event.
QueriesOf(eid) == {k \in DOMAIN tfQueries : k[1] = eid}

\* C34: the diagnosis pass issues at most 6 occlusion queries per draw event and
\* gives each query its own index, so every query index is below the pool size
\* of 6 times the number of draw events, whatever the flags of the events are.
C34_QueriesFitPool ==
  /\ \A eid \in Range(drawEvents) : Cardinality(QueriesOf(eid)) <= QueriesPerDraw
  /\ \A j, k \in DOMAIN tfQueries : tfQueries[j] = tfQueries[k] => j = k
  /\ \A k \in DOMAIN tfQueries :
       tfQueries[k] >= 0 /\ tfQueries[k] < TestsFailedPoolSize(drawEvents)

\* A draw with six queries: every test but the scissor test is enabled and none
\* must fail; the last index of the pool is in use.
C34_Witness ==
  \E eid \in Range(drawEvents) :
    /\ Cardinality(QueriesOf(eid)) = QueriesPerDraw
    /\ \E k \in QueriesOf(eid) : tfQueries[k] = TestsFailedPoolSize(drawEvents) - 1

\* C35: in the discarded-fragment pass every occlusion query is begun on an index
\* that no earlier query of the pass used and that is below the pool size, and
\* every index PrimitiveDiscarded reads afterwards is below the number of results
\* fetched, also when a primitive id occurs more than once in the list of an event.
C35_DiscardedIndicesInRange ==
  (pc = "fill" /\ dcIndices # EmptyMap) =>
    /\ \A q \in DOMAIN QueriesBegun :
         /\ Len(QueriesBegun[q]) = 1
         /\ q < PrimitivesToCheck(discardedPrims)
    /\ \A h \in DOMAIN history :
         LET key == <<history[h].eventId, history[h].primitiveID>>
         IN key \in DOMAIN dcIndices => dcIndices[key] < MapSize(dcIndices)

\* The history entries whose (event, primitive id) the discarded-fragment pass was
\* given.
Submitted(hist, prims) ==
  {h \in DOMAIN hist :
     /\ hist[h].eventId \in DOMAIN prims
     /\ hist[h].primitiveID \in Range(prims[hist[h].eventId])}

\* C36: merging the results of the discarded-fragment pass changes shaderDiscarded
\* only of history entries whose (event, primitive id) was submitted to the pass;
\* every other entry keeps the shaderDiscarded flag the diagnosis pass gave it.
C36_OnlySubmittedChanged ==
  [][pc = "discarded" =>
       \A h \in DOMAIN history \ Submitted(history, discardedPrims) :
         history'[h].shaderDiscarded = history[h].shaderDiscarded]_vars

-----------------------------------------------------------------------------
(* The colour write masks of the pipelines the passes redraw with          *)
(* (specification SpecBlend).  A pipeline's colour blend state is the      *)
(* sequence of the colorWriteMask of its attachments, four bits each.      *)

MaxAttachments == 2
MaxRedrawPipes == 2

\* VK_COLOR_COMPONENT_R_BIT | G_BIT | B_BIT | A_BIT
AllComponents == 15

ColorWriteMasks == {0, 1, AllComponents}

\* The colour blend attachments an application's pipeline can have.
BlendAttachments == UNION {[1..n -> ColorWriteMasks] : n \in 0..MaxAttachments}

\* for(uint32_t i = 0; i < cbs->attachmentCount; i++) atts[i].colorWriteMask = 0;
DisableColorWrites(atts) == [i \in DOMAIN atts |-> 0]

\* VulkanOcclusionCallback::GetPixelOcclusionPipeline: the colour blend state of the
\* pipeline of the candidate filter.
GetPixelOcclusionPipeline(atts) == DisableColorWrites(atts)

\* VulkanColorAndStencilCallback::GetPipelineReplacements: both pipelines are made
\* from the one create info, after the loop.
GetPipelineReplacements(atts) ==
  [originalShaderStencil |-> DisableColorWrites(atts),
   fixedShaderStencil |-> DisableColorWrites(atts)]

\* TestsFailedCallback::CreatePipeline: of the create info MakeGraphicsPipelineInfo
\* fills it changes pSampleMask, depthWriteEnable, the tests the flags disable, the
\* stages and the scissors; pColorBlendState stays as the base pipeline has it.
TestsFailedColorBlend(atts, pipeCreateFlags) == atts

\* VulkanPixelHistoryDiscardedFragmentsCallback::CreatePipeline
DiscardedColorBlend(atts) == DisableColorWrites(atts)

RedrawPipe(pass, atts, made) == [pass |-> pass, base |-> atts, colorWriteMask |-> made]

PipeMade(pipe) ==
  /\ Len(redrawPipes) < MaxRedrawPipes
  /\ redrawPipes' = Append(redrawPipes, pipe)
  /\ UNCHANGED <<histVars, gpuVars, shaderReplacements, shaderModules, stripRuns, calls, strip,
                 stages, sampling>>

\* The candidate filter makes the pipeline of its redraw.
OcclusionPipe ==
  \E atts \in BlendAttachments :
    PipeMade(RedrawPipe("occlusion", atts, GetPixelOcclusionPipeline(atts)))

\* The modification capture makes the pipelines of its two stencil-counting redraws.
StencilCountPipes ==
  \E atts \in BlendAttachments : \E fixed \in BOOLEAN :
    LET replacements == GetPipelineReplacements(atts)
    IN PipeMade(RedrawPipe("capture", atts,
                           IF fixed THEN replacements.fixedShaderStencil
                           ELSE replacements.originalShaderStencil))

\* The diagnosis pass makes the pipeline of the redraw of one test.
TestsFailedPipe ==
  \E atts \in BlendAttachments : \E test \in {TestEnabled_Culling, TestEnabled_FragmentDiscard} :
    PipeMade(RedrawPipe("testsFailed", atts, TestsFailedColorBlend(atts, TestPipeFlags(test))))

\* The discarded-fragment pass makes the pipeline of its redraws.
DiscardedPipe ==
  \E atts \in BlendAttachments :
    PipeMade(RedrawPipe("discarded", atts, DiscardedColorBlend(atts)))

InitBlend ==
  /\ InitHistory(<<>>)
  /\ targetFormat = ResourceFmt
  /\ depthOut = FALSE
  /\ InitCacheIdle

NextBlend == OcclusionPipe \/ StencilCountPipes \/ TestsFailedPipe \/ DiscardedPipe

SpecBlend == InitBlend /\ [][NextBlend]_vars

\* C37: every redraw issued under an occlusion query or for stencil counting
\* (candidate filter, modification capture, diagnosis pass, discarded-fragment
\* pass) uses a pipeline whose colour write mask is zero for every attachment.
C37_RedrawsWriteNoColour ==
  \A i \in DOMAIN redrawPipes :
    \A a \in DOMAIN redrawPipes[i].colorWriteMask : redrawPipes[i].colorWriteMask[a] = 0

-----------------------------------------------------------------------------
(* The draw callback of the driver (specification Spec).                   *)

\* C38: during each replay pass the callback registered with the driver is the
\* callback object constructed for that pass, never the callback of an earlier pass
\* and never none, and when PixelHistory returns no pixel-history callback remains
\* registered with the driver.
C38_PassCallbackRegistered ==
  /\ \A i \in DOMAIN drawcallCB.replays :
       drawcallCB.replays[i].cb = drawcallCB.replays[i].pass
  /\ Returned => drawcallCB.cb = NoCallback

\* PixelHistory has returned after all five passes.
C38_Witness ==
  /\ Returned
  /\ {drawcallCB.replays[i].pass : i \in DOMAIN drawcallCB.replays}
       = {"occlusion", "capture", "testsFailed", "perFragment", "discarded"}

-----------------------------------------------------------------------------
(* The assertions of IntersectScissors (specification SpecScissorBlock).   *)

\* RDCASSERT(newScissor.extent.height == 1); RDCASSERT(newScissor.extent.width == 1);
IntersectScissorsAsserts(newScissor) == newScissor.h = 1 /\ newScissor.w = 1

\* The newScissor arguments of the IntersectScissors calls the scissor block makes for
\* a draw with pipeline p: with dynamic scissors pipestate.scissors[i], which
\* ScissorToPixel has set, for every viewport of the render state; with static
\* scissors pScissors[i] right after ScissorToPixel, in CreatePipeline.
IntersectScissorsCalls(p) ==
  {ScissorToPixel(p.views[i], p.scissors[i]) : i \in DOMAIN p.views}

-----------------------------------------------------------------------------
(* The sample mask PixelHistory computes (specification SpecSample).       *)
(* A uint32_t is the integer with the same 32 bits: values from 2^31 on    *)
(* are the negative integers, ~0U is -1.  A mask is the set of its bits.   *)

\* ~0U
AllBits == -1

\* a < b for uint32_t
UnsignedLess(a, b) == IF (a < 0) = (b < 0) THEN a < b ELSE b < 0

\* VkSampleCountFlagBits
SampleCounts == {1, 2, 4, 8, 16, 32, 64}

MaxSampleIndex == 65

\* sub.sample: the samples of the largest image and the next two indices, and ~0U.
SampleIndices == 0..MaxSampleIndex \cup {AllBits}

\* uint32_t sampleMask = ~0U; if(sampleIdx < 32) sampleMask = 1U << sampleIdx;
SampleMaskOf(sampleIdx) == IF UnsignedLess(sampleIdx, 32) THEN {sampleIdx} ELSE 0..31

\* PixelHistory from "uint32_t sampleIdx = sub.sample" to the last change of
\* sampleIdx.
SampleSelection(sample, samples) ==
  LET clamped == IF UnsignedLess(samples, sample) THEN 0 ELSE sample
      multisampled == samples > 1
  IN [sample |-> sample, samples |-> samples, computed |-> TRUE,
      sampleIdx |-> IF clamped = AllBits \/ ~multisampled THEN 0 ELSE clamped,
      sampleMask |-> SampleMaskOf(clamped)]

InitSample ==
  /\ InitHistory(<<>>)
  /\ targetFormat = ResourceFmt
  /\ depthOut = FALSE
  /\ shaderReplacements = EmptyMap
  /\ shaderModules = EmptyMap
  /\ stripRuns = EmptyMap
  /\ calls = <<>>
  /\ stages = <<>>
  /\ redrawPipes = <<>>
  /\ strip = [spirv |-> <<>>, functions |-> <<>>, entryId |-> 0, queue |-> {}, patched |-> {},
              order |-> <<>>, modified |-> FALSE]
  /\ \E sample \in SampleIndices, samples \in SampleCounts :
       sampling = [sample |-> sample, samples |-> samples, computed |-> FALSE,
                   sampleIdx |-> sample, sampleMask |-> {}]

\* PixelHistory computes sampleIdx and sampleMask.
ComputeSampleMask ==
  /\ ~sampling.computed
  /\ sampling' = SampleSelection(sampling.sample, sampling.samples)
  /\ UNCHANGED <<histVars, gpuVars, shaderReplacements, shaderModules, stripRuns, calls, strip,
                 stages, redrawPipes>>

NextSample == ComputeSampleMask

SpecSample == InitSample /\ [][NextSample]_vars

\* C40: for every requested sample index and every sample count of the image the
\* sample mask PixelHistory computes has exactly one bit set, at a position below
\* the sample count: the requested index when it is a sample of the image, bit 0
\* otherwise.
C40_OneSampleBit ==
  sampling.computed =>
    /\ Cardinality(sampling.sampleMask) = 1
    /\ \A bit \in sampling.sampleMask : bit < sampling.samples
    /\ sampling.sampleMask =
         IF UnsignedLess(sampling.sample, sampling.samples) THEN {sampling.sample} ELSE {0}

=============================================================================
